---- MODULE Spec2Model ----
(***************************************************************************)
(* Ingestion pipeline of the UK public spending tracker: field cleaning    *)
(* (cleaning.py), dedup hashing and idempotent insert (fetch_and_ingest.py)*)
(* over the payments table (db_schema.py), with the geocoding collaborator *)
(* (geocode.py).                                                           *)
(*                                                                         *)
(* A Python str is a sequence of one-character strings.  A Python value is *)
(* a record [t, s, neg, pence, isint, y, m, d] whose tag t is one of       *)
(* "none" (None, or a key missing from the raw dict: dict.get gives None), *)
(* "str", "num" (a finite int or float, held as sign and hundredths),      *)
(* "nan" (float('nan'), the value pandas gives a blank cell) and "dt"      *)
(* (a datetime).  A float result is [k, neg, pence] with k one of "fin",   *)
(* "nan", "inf".                                                           *)
(***************************************************************************)
EXTENDS Integers, Sequences, FiniteSets, TLC

(***************************************************************************)
(* Characters and str methods                                              *)
(***************************************************************************)
Pound == "£"

WS == {" ", "\t"}

DigitSeq == <<"0", "1", "2", "3", "4", "5", "6", "7", "8", "9">>

DigitSet == {DigitSeq[i] : i \in 1..10}

D19 == DigitSet \ {"0"}

DigitVal(c) == (CHOOSE i \in 1..10 : DigitSeq[i] = c) - 1

UpperSeq == <<"A", "B", "C", "D", "E", "F", "G", "H", "I", "J", "K", "L", "M",
              "N", "O", "P", "Q", "R", "S", "T", "U", "V", "W", "X", "Y", "Z">>

LowerSeq == <<"a", "b", "c", "d", "e", "f", "g", "h", "i", "j", "k", "l", "m",
              "n", "o", "p", "q", "r", "s", "t", "u", "v", "w", "x", "y", "z">>

\* str.lower() on one character
LowerChar(c) ==
    IF \E i \in 1..26 : UpperSeq[i] = c
    THEN LowerSeq[CHOOSE i \in 1..26 : UpperSeq[i] = c]
    ELSE c

LowerStr(s) == [i \in 1..Len(s) |-> LowerChar(s[i])]

RECURSIVE lstrip(_)
lstrip(s) ==
    IF s = <<>> THEN s
    ELSE IF Head(s) \in WS THEN lstrip(Tail(s)) ELSE s

RECURSIVE rstrip(_)
rstrip(s) ==
    IF s = <<>> THEN s
    ELSE IF s[Len(s)] \in WS THEN rstrip(SubSeq(s, 1, Len(s) - 1)) ELSE s

\* str.strip()
strip(s) == rstrip(lstrip(s))

\* str.replace(c, "")
remove(s, c) == SelectSeq(s, LAMBDA x : x # c)

\* str.isdigit()
isdigit(s) == s # <<>> /\ \A i \in 1..Len(s) : s[i] \in DigitSet

RECURSIVE DigitsToNat(_)
DigitsToNat(s) ==
    IF s = <<>> THEN 0
    ELSE 10 * DigitsToNat(SubSeq(s, 1, Len(s) - 1)) + DigitVal(s[Len(s)])

RECURSIVE NatToDigits(_)
NatToDigits(n) ==
    IF n < 10 THEN <<DigitSeq[n + 1]>>
    ELSE NatToDigits(n \div 10) \o <<DigitSeq[(n % 10) + 1]>>

\* zero-padded decimal of width w, as %02d / %04d
RECURSIVE Pad(_, _)
Pad(n, w) ==
    LET ds == NatToDigits(n)
    IN  IF Len(ds) >= w THEN ds ELSE <<"0">> \o Pad(n, w - 1)

(***************************************************************************)
(* Python values                                                           *)
(***************************************************************************)
PyVal(t, s, neg, pence, isint, y, m, d) ==
    [t |-> t, s |-> s, neg |-> neg, pence |-> pence, isint |-> isint,
     y |-> y, m |-> m, d |-> d]

None == PyVal("none", <<>>, FALSE, 0, FALSE, 0, 0, 0)

Str(s) == PyVal("str", s, FALSE, 0, FALSE, 0, 0, 0)

PyInt(n) == PyVal("num", <<>>, FALSE, 100 * n, TRUE, 0, 0, 0)

PyFloat(pence) == PyVal("num", <<>>, FALSE, pence, FALSE, 0, 0, 0)

NaN == PyVal("nan", <<>>, FALSE, 0, FALSE, 0, 0, 0)

DateTime(y, m, d) == PyVal("dt", <<>>, FALSE, 0, FALSE, y, m, d)

Fin(neg, pence) == [k |-> "fin", neg |-> neg, pence |-> pence]

FNaN == [k |-> "nan", neg |-> FALSE, pence |-> 0]

FInf(neg) == [k |-> "inf", neg |-> neg, pence |-> 0]

\* a float literal with more fractional digits than the model's hundredths
FUnmodelled == [k |-> "unmodelled", neg |-> FALSE, pence |-> 0]

\* bool(v), as used by `v or ""`
Truthy(v) ==
    CASE v.t = "none" -> FALSE
      [] v.t = "str" -> v.s # <<>>
      [] v.t = "num" -> v.pence # 0
      [] OTHER -> TRUE

\* repr of a finite float held in hundredths: 12.5, 12.0, 12.05
FloatRepr(neg, pence) ==
    LET ip == NatToDigits(pence \div 100)
        f  == pence % 100
        fp == IF f % 10 = 0 THEN NatToDigits(f \div 10) ELSE Pad(f, 2)
    IN  (IF neg THEN <<"-">> ELSE <<>>) \o ip \o <<".">> \o fp

\* datetime.strftime("%Y-%m-%d")
strftime(y, m, d) == Pad(y, 4) \o <<"-">> \o Pad(m, 2) \o <<"-">> \o Pad(d, 2)

\* str(v)
str(v) ==
    CASE v.t = "none" -> <<"N", "o", "n", "e">>
      [] v.t = "str" -> v.s
      [] v.t = "num" ->
            IF v.isint
            THEN (IF v.neg THEN <<"-">> ELSE <<>>) \o NatToDigits(v.pence \div 100)
            ELSE FloatRepr(v.neg, v.pence)
      [] v.t = "nan" -> <<"n", "a", "n">>
      [] OTHER -> strftime(v.y, v.m, v.d)
                    \o <<" ", "0", "0", ":", "0", "0", ":", "0", "0">>

(***************************************************************************)
(* float(s): optional sign, then nan / inf / infinity in any letter case,  *)
(* or digits with at most one point and at least one digit.  The inputs of *)
(* the model carry no exponent and no digit-group underscore, and at most  *)
(* two fractional digits, so that a value is exact in hundredths.          *)
(***************************************************************************)
float(s) ==
    LET t      == strip(s)
        signed == t # <<>> /\ t[1] \in {"+", "-"}
        neg    == signed /\ t[1] = "-"
        body   == IF signed THEN Tail(t) ELSE t
        low    == LowerStr(body)
        dots   == {i \in 1..Len(body) : body[i] = "."}
        dot    == IF dots = {} THEN Len(body) + 1 ELSE CHOOSE i \in dots : TRUE
        ip     == SubSeq(body, 1, dot - 1)
        fp     == SubSeq(body, dot + 1, Len(body))
        fpence == IF Len(fp) = 0 THEN 0
                  ELSE IF Len(fp) = 1 THEN 10 * DigitVal(fp[1])
                  ELSE DigitsToNat(fp)
    IN  IF low = <<"n", "a", "n">> THEN [ok |-> TRUE, val |-> FNaN]
        ELSE IF low = <<"i", "n", "f">>
                \/ low = <<"i", "n", "f", "i", "n", "i", "t", "y">>
        THEN [ok |-> TRUE, val |-> FInf(neg)]
        ELSE IF /\ Cardinality(dots) <= 1
                /\ \A i \in 1..Len(body) : body[i] \in DigitSet \cup {"."}
                /\ Len(ip) + Len(fp) >= 1
        THEN IF Len(fp) > 2
             THEN [ok |-> TRUE, val |-> FUnmodelled]
             ELSE [ok |-> TRUE, val |-> Fin(neg, 100 * DigitsToNat(ip) + fpence)]
        ELSE [ok |-> FALSE, val |-> Fin(FALSE, 0)]

(***************************************************************************)
(* cleaning.py                                                             *)
(***************************************************************************)
clean_supplier(s) ==
    IF s.t = "none" THEN <<>> ELSE strip(str(s))

clean_amount(a) ==
    LET s == strip(remove(remove(str(a), ","), Pound))
    IN  IF s = <<>> THEN Fin(FALSE, 0)
        ELSE IF float(s).ok THEN float(s).val
        ELSE Fin(FALSE, 0)

(***************************************************************************)
(* datetime.strptime: the format is compiled to a regular expression, one  *)
(* ordered list of alternatives per directive, each alternative a sequence *)
(* of character classes; re.match takes the first alternative whose        *)
(* continuation matches, and the match must consume the whole string.      *)
(***************************************************************************)
MonthNames == << <<"j", "a", "n">>, <<"f", "e", "b">>, <<"m", "a", "r">>,
                 <<"a", "p", "r">>, <<"m", "a", "y">>, <<"j", "u", "n">>,
                 <<"j", "u", "l">>, <<"a", "u", "g">>, <<"s", "e", "p">>,
                 <<"o", "c", "t">>, <<"n", "o", "v">>, <<"d", "e", "c">> >>

\* the characters that equal c under re.IGNORECASE
AnyCase(c) == {c} \cup {UpperSeq[i] : i \in {j \in 1..26 : LowerSeq[j] = c}}

\* \s+ at position pos of s: the longest run first, then shorter ones
WsAlts(s, pos) ==
    LET n == Len(s) - pos + 1
    IN  IF n < 1 THEN <<>>
        ELSE [i \in 1..n |-> [j \in 1..(n - i + 1) |-> WS]]

Alts(tok, s, pos) ==
    CASE tok = "%Y" -> << <<DigitSet, DigitSet, DigitSet, DigitSet>> >>
      [] tok = "%m" -> << <<{"1"}, {"0", "1", "2"}>>, <<{"0"}, D19>>, <<D19>> >>
      [] tok = "%d" -> << <<{"3"}, {"0", "1"}>>, <<{"1", "2"}, DigitSet>>,
                          <<{"0"}, D19>>, <<D19>>, <<{" "}, D19>> >>
      [] tok = "%b" -> [i \in 1..12 |->
                          [j \in 1..3 |-> AnyCase(MonthNames[i][j])]]
      [] tok = " "  -> WsAlts(s, pos)
      [] OTHER      -> << <<{tok}>> >>

NoMatch == [ok |-> FALSE, end |-> 0, caps |-> <<>>]

RECURSIVE re_match(_, _, _)
RECURSIVE try_alts(_, _, _, _)
try_alts(toks, s, pos, i) ==
    LET alts == Alts(Head(toks), s, pos)
    IN  IF i > Len(alts) THEN NoMatch
        ELSE LET a    == alts[i]
                 fits == /\ pos + Len(a) - 1 <= Len(s)
                         /\ \A j \in 1..Len(a) : s[pos + j - 1] \in a[j]
                 rest == re_match(Tail(toks), s, pos + Len(a))
             IN  IF fits /\ rest.ok
                 THEN [ok |-> TRUE, end |-> rest.end,
                       caps |-> <<[tok |-> Head(toks), alt |-> i,
                                   text |-> SubSeq(s, pos, pos + Len(a) - 1)]>>
                                \o rest.caps]
                 ELSE try_alts(toks, s, pos, i + 1)

re_match(toks, s, pos) ==
    IF toks = <<>> THEN [ok |-> TRUE, end |-> pos, caps |-> <<>>]
    ELSE try_alts(toks, s, pos, 1)

IsLeap(y) == (y % 4 = 0 /\ y % 100 # 0) \/ y % 400 = 0

DaysInMonth(y, m) ==
    IF m = 2 THEN (IF IsLeap(y) THEN 29 ELSE 28)
    ELSE IF m \in {4, 6, 9, 11} THEN 30 ELSE 31

\* the value of directive tok among the captures, or dflt when the format lacks it
Captured(caps, tok, dflt) ==
    LET is == {i \in 1..Len(caps) : caps[i].tok = tok}
    IN  IF is = {} THEN dflt
        ELSE LET c == caps[CHOOSE i \in is : TRUE]
             IN  IF tok = "%b" THEN c.alt ELSE DigitsToNat(remove(c.text, " "))

strptime(s, fmt) ==
    LET found == re_match(fmt, s, 1)
        y == Captured(found.caps, "%Y", 1900)
        m == IF \E i \in 1..Len(fmt) : fmt[i] = "%b"
             THEN Captured(found.caps, "%b", 1)
             ELSE Captured(found.caps, "%m", 1)
        d == Captured(found.caps, "%d", 1)
    IN  IF ~found.ok \/ found.end # Len(s) + 1
        THEN [ok |-> FALSE, y |-> 0, m |-> 0, d |-> 0]
        ELSE IF y < 1 \/ d > DaysInMonth(y, m)
        THEN [ok |-> FALSE, y |-> 0, m |-> 0, d |-> 0]
        ELSE [ok |-> TRUE, y |-> y, m |-> m, d |-> d]

\* the format list with the slash format read month first, which the code
\* does not do
FORMATS_month_first == << <<"%Y", "-", "%m", "-", "%d">>,
                          <<"%m", "/", "%d", "/", "%Y">>,
                          <<"%Y", "/", "%m", "/", "%d">>,
                          <<"%d", "-", "%m", "-", "%Y">>,
                          <<"%d", " ", "%b", " ", "%Y">>,
                          <<"%Y", "-", "%m">> >>

FORMATS == << <<"%Y", "-", "%m", "-", "%d">>,
              <<"%d", "/", "%m", "/", "%Y">>,
              <<"%Y", "/", "%m", "/", "%d">>,
              <<"%d", "-", "%m", "-", "%Y">>,
              <<"%d", " ", "%b", " ", "%Y">>,
              <<"%Y", "-", "%m">> >>

RECURSIVE try_formats(_, _)
try_formats(ds, i) ==
    IF i > Len(FORMATS) THEN None
    ELSE LET dt == strptime(strip(ds), FORMATS[i])
         IN  IF dt.ok THEN Str(strftime(dt.y, dt.m, dt.d))
             ELSE try_formats(ds, i + 1)

_parse_date(ds) ==
    LET byFormat == try_formats(ds, 1)
    IN  IF byFormat.t # "none" THEN byFormat
        ELSE IF Len(strip(ds)) = 4 /\ isdigit(strip(ds))
        THEN Str(strip(ds) \o <<"-", "0", "1", "-", "0", "1">>)
        ELSE None

ExcelLow == 35000

ExcelHigh == 60000

clean_date(d) ==
    IF d.t = "none" THEN None
    ELSE IF d.t = "dt" THEN Str(strftime(d.y, d.m, d.d))
    ELSE LET ds == strip(str(d))
             n  == float(ds)
         IN  IF ds = <<>> THEN None
             ELSE IF /\ n.ok
                     /\ n.val.k = "fin"
                     /\ ~n.val.neg
                     /\ 100 * ExcelLow < n.val.pence
                     /\ n.val.pence < 100 * ExcelHigh
             THEN Str(strftime(1899, 12, 30))
             ELSE _parse_date(ds)

\* (v or "").strip(): a truthy value that is no str has no strip method
or_strip(v) ==
    IF Truthy(v)
    THEN IF v.t = "str" THEN [raised |-> FALSE, s |-> strip(v.s)]
         ELSE [raised |-> TRUE, s |-> <<>>]
    ELSE [raised |-> FALSE, s |-> <<>>]

normalize_record(r) ==
    LET council     == or_strip(r.council)
        description == or_strip(r.description)
        category    == or_strip(r.category)
        invoice_ref == or_strip(r.invoice_ref)
    IN  [raised       |-> \/ council.raised \/ description.raised
                          \/ category.raised \/ invoice_ref.raised,
         council      |-> council.s,
         payment_date |-> clean_date(r.payment_date),
         supplier     |-> clean_supplier(r.supplier),
         description  |-> description.s,
         category     |-> category.s,
         amount_gbp   |-> clean_amount(r.amount_gbp),
         invoice_ref  |-> invoice_ref.s]

(***************************************************************************)
(* State                                                                   *)
(***************************************************************************)
VARIABLES
    fn,         \* the cleaning function applied last ("none" before any call)
    arg,        \* the argument of clean_supplier, clean_amount or clean_date
    res,        \* the result of clean_supplier (a str) or clean_date, as a value
    amount,     \* the result of clean_amount
    rec,        \* the argument of normalize_record
    normalized, \* the result of normalize_record
    payments,   \* the payments table, rows in insertion order
    cache,      \* geocode._cache: supplier name -> [lat, lon]
    last,       \* the latest insert_records call and its outcome
    ncalls,     \* the number of insert_records calls so far
    asked,      \* the names the external geocoder was asked about so far
    reasked,    \* the names it was asked about more than once
    fetched,    \* the latest call of a fetcher: what it was answered and returned
    discovered, \* the latest call of discover_new_councils and its outcome
    run,        \* load_all_council_data: where it is and what it did so far
    update_log, \* the update_log table and whether its latest entry is recent
    detected,   \* the latest call of the anomaly queries and its results
    keyed,      \* the latest two payments given to _row_hash and their keys
    writers     \* the insert_records calls running side by side

vars == <<fn, arg, res, amount, rec, normalized, payments, cache, last, ncalls,
          asked, reasked, fetched, discovered, run, update_log, detected, keyed,
          writers>>

\* the variables of the anomaly queries, of the keys and of concurrent calls
auditVars == <<detected, keyed, writers>>

\* the variables of the fetchers, of discovery and of load_all_council_data
sourceVars == <<fetched, discovered, run, update_log>>

\* the variables of the cleaning calls
cleanVars == <<fn, arg, res, amount, rec, normalized>>

\* the variables of the store, the geocoder and the insert_records calls
storeVars == <<payments, cache, last, ncalls, asked, reasked>>

(***************************************************************************)
(* Inputs of the cleaning functions                                        *)
(***************************************************************************)
Years == {2023, 2024}

Months == 1..12

Days == {1, 3, 12, 13, 28, 29, 30, 31}

\* "Mar" for 3
MonthAbbr(m) ==
    <<UpperSeq[CHOOSE i \in 1..26 : LowerSeq[i] = MonthNames[m][1]],
      MonthNames[m][2], MonthNames[m][3]>>

Sep3(a, sep, b, c) == a \o <<sep>> \o b \o <<sep>> \o c

IsoSpelling(y, m, d) == Sep3(Pad(y, 4), "-", Pad(m, 2), Pad(d, 2))

DmySlashSpelling(y, m, d) == Sep3(Pad(d, 2), "/", Pad(m, 2), Pad(y, 4))

YmdSlashSpelling(y, m, d) == Sep3(Pad(y, 4), "/", Pad(m, 2), Pad(d, 2))

DmyDashSpelling(y, m, d) == Sep3(Pad(d, 2), "-", Pad(m, 2), Pad(y, 4))

FourSpellings(y, m, d) ==
    {IsoSpelling(y, m, d), DmySlashSpelling(y, m, d),
     YmdSlashSpelling(y, m, d), DmyDashSpelling(y, m, d)}

OtherSpellings(y, m, d) ==
    {Sep3(NatToDigits(d), "/", NatToDigits(m), Pad(y, 4)),
     Sep3(NatToDigits(d), " ", MonthAbbr(m), Pad(y, 4)),
     Sep3(Pad(d, 2), " ", LowerStr(MonthAbbr(m)), Pad(y, 4)),
     <<" ">> \o IsoSpelling(y, m, d) \o <<" ">>,
     Pad(y, 4) \o <<"-">> \o Pad(m, 2),
     Sep3(Pad(m, 2), "/", Pad(d, 2), Pad(y, 4))}

OddDateStrings ==
    {<<>>, <<" ">>, <<"N", "/", "A">>, <<"n", "a", "n">>,
     <<"n", "o", "t", " ", "a", " ", "d", "a", "t", "e">>,
     <<"2", "0", "2", "4">>, <<"0", "0", "0", "0">>, <<" ", "1", "9", "9", "9", " ">>,
     <<"1", "2">>, <<"2", "0", "2">>, <<"2", "0", "2", "4", "5">>,
     <<"4", "5", "0", "0", "0">>, <<"4", "5", "0", "0", "0", ".", "0">>,
     <<"3", "5", "0", "0", "0">>, <<"3", "5", "0", "0", "0", ".", "0", "1">>,
     <<"5", "9", "9", "9", "9", ".", "9", "9">>, <<"6", "0", "0", "0", "0">>,
     <<"-", "4", "5", "0", "0", "0">>, <<"+", "2", "0", "2", "4">>,
     <<"2", "0", "2", "4", ".", "0">>, <<"2", "0", "2", "4", "-", "1", "3">>,
     <<"1", " ", "/", "3", "/", "2", "0", "2", "4">>,
     <<"2", "0", "2", "4", "-", "0", "3", "-", "0", "1", "T">>,
     <<"1", " ", "F", "o", "o", " ", "2", "0", "2", "4">>,
     <<"0", "0", "/", "0", "3", "/", "2", "0", "2", "4">>,
     <<"3", "2", "/", "0", "1", "/", "2", "0", "2", "4">>}

DateInputs ==
    {Str(s) : s \in UNION {FourSpellings(y, m, d) \cup OtherSpellings(y, m, d) :
                              y \in Years, m \in Months, d \in Days}}
    \cup {Str(s) : s \in OddDateStrings}
    \cup {None, NaN, PyInt(0), PyInt(2024), PyInt(45000), PyFloat(4500050),
          PyFloat(202400)}
    \cup {DateTime(y, 3, d) : y \in Years, d \in {1, 31}}

AmountBodies ==
    {<<>>, <<"0">>, <<"5">>, <<"1", "2", ".", "5">>, <<"1", "2", ".", "0", "5">>,
     <<"1", ",", "2", "3", "4", ".", "5", "0">>, <<"1", "0", "0", ",", "0", "0", "0">>,
     <<"1", "5", "0", "0", "0", "0", ".", "0", "0">>, <<".", "5">>, <<"5", ".">>,
     <<".">>, <<"1", ".", "2", ".", "3">>, <<"1", " ", "2">>, <<"N", "/", "A">>,
     <<"n", "a", "n">>, <<"N", "a", "N">>, <<"i", "n", "f">>,
     <<"I", "n", "f", "i", "n", "i", "t", "y">>, <<"-", "5">>, <<"1", "2", "p">>}

AmountPrefixes == {<<>>, <<Pound>>, <<"-">>, <<"+">>, <<"-", Pound>>, <<Pound, " ">>, <<" ">>}

AmountSuffixes == {<<>>, <<" ">>}

AmountInputs ==
    {Str(p \o b \o s) : p \in AmountPrefixes, b \in AmountBodies, s \in AmountSuffixes}
    \cup {None, NaN, PyInt(0), PyInt(5), PyInt(150000), PyFloat(0), PyFloat(1250),
          PyFloat(123405)}

Words == {<<"A", "c", "m", "e">>, <<"L", "t", "d">>, <<"x">>}

Gaps == {<<" ">>, <<" ", " ">>, <<"\t">>, <<" ", "\t", " ">>}

Margins == {<<>>, <<" ">>, <<"\t", " ">>}

SupplierInputs ==
    {Str(l \o w \o r) : l \in Margins, w \in Words, r \in Margins}
    \cup {Str(l \o w1 \o g \o w2 \o r) :
             l \in Margins, w1 \in Words, g \in Gaps, w2 \in Words, r \in Margins}
    \cup {Str(m) : m \in Margins}
    \cup {None, NaN, PyInt(0), PyInt(5), PyFloat(1250)}

\* one raw record; a key missing from the dict reads as None
RawRecord(council, date, supplier, description, category, amount_gbp, ref) ==
    [council |-> council, payment_date |-> date, supplier |-> supplier,
     description |-> description, category |-> category,
     amount_gbp |-> amount_gbp, invoice_ref |-> ref]

FieldNames == {"council", "payment_date", "supplier", "description", "category",
               "amount_gbp", "invoice_ref"}

\* what one cell of a raw record may hold: str, number, blank (NaN), None/missing
CellValues ==
    {None, NaN, PyInt(0), PyInt(7), PyFloat(1250), Str(<<>>), Str(<<" ", "x", " ">>),
     Str(<<"2", "0", "2", "4", "-", "0", "3", "-", "0", "1">>)}

BaseRecord ==
    RawRecord(Str(<<"A">>), Str(<<"0", "1", "/", "0", "3", "/", "2", "0", "2", "4">>),
              Str(<<"A", "c", "m", "e">>), Str(<<"x">>), Str(<<>>),
              Str(<<Pound, "1", "2", ".", "5", "0">>), Str(<<"i", "1">>))

\* the base record with up to two of its cells replaced
RecordInputs ==
    {[[BaseRecord EXCEPT ![f] = v] EXCEPT ![g] = w] :
        f \in FieldNames, v \in CellValues, g \in FieldNames, w \in CellValues}

(***************************************************************************)
(* The cleaning functions, each applied once to any of its inputs         *)
(***************************************************************************)
NoRecord == RawRecord(None, None, None, None, None, None, None)

NoNorm == [raised |-> FALSE, council |-> <<>>, payment_date |-> None,
           supplier |-> <<>>, description |-> <<>>, category |-> <<>>,
           amount_gbp |-> Fin(FALSE, 0), invoice_ref |-> <<>>]

NoFirst == [inserted |-> 0, skipped |-> 0, before |-> <<>>]

NoCall == [batch |-> <<>>, do_geocode |-> FALSE, err |-> 0, outcome |-> "none",
           inserted |-> 0, skipped |-> 0, before |-> <<>>,
           again |-> FALSE, first |-> NoFirst]

\* an empty DataFrame
NoTable == [columns |-> <<>>, rows |-> <<>>]

\* no answer
NoResponse == [kind |-> "none", parses |-> "never", df |-> NoTable]

NoFetch == [by |-> "none", council |-> <<>>, direct |-> NoResponse,
            index |-> "none", monthly |-> <<>>, raised |-> FALSE,
            payments |-> <<>>]

NoDiscovery == [called |-> FALSE, answers |-> <<>>, raised |-> FALSE,
                requests |-> <<>>, out |-> <<>>]

\* load_all_council_data before its first call
NoRun == [pc |-> "idle", runs |-> 0, fetchers |-> <<>>, processed |-> {}, next |-> 1, new_councils |-> <<>>, discovery |-> "none", attempts |-> <<>>, before |-> <<>>]

\* update_log before any run: no entry
NoLog == [councils |-> {}, recent |-> FALSE]

\* before any call of the anomaly queries
NoDetection == [called |-> FALSE, council |-> <<>>, large |-> <<>>, frequent |-> {}, large_payments |-> <<>>, dominant_suppliers |-> {}]

NoKeyed == [called |-> FALSE, a |-> NoNorm, b |-> NoNorm, key_a |-> <<>>, key_b |-> <<>>]

MaxWriters == 2

\* a call of insert_records that has not started
NoWriter == [pc |-> "idle", batch |-> <<>>, to_insert |-> <<>>, skipped |-> 0, inserted |-> 0, pending |-> <<>>]

Init ==
    /\ fn = "none"
    /\ arg = None
    /\ res = None
    /\ amount = Fin(FALSE, 0)
    /\ rec = NoRecord
    /\ normalized = NoNorm
    /\ payments = <<>>
    /\ cache = {}
    /\ last = NoCall
    /\ ncalls = 0
    /\ asked = {}
    /\ reasked = {}
    /\ fetched = NoFetch
    /\ discovered = NoDiscovery
    /\ run = NoRun
    /\ update_log = NoLog
    /\ detected = NoDetection
    /\ keyed = NoKeyed
    /\ writers = [w \in 1..MaxWriters |-> NoWriter]

CleanSupplier ==
    \E s \in SupplierInputs :
        /\ fn = "none"
        /\ fn' = "clean_supplier"
        /\ arg' = s
        /\ res' = Str(clean_supplier(s))
        /\ UNCHANGED <<amount, rec, normalized>>
        /\ UNCHANGED storeVars
        /\ UNCHANGED sourceVars
        /\ UNCHANGED auditVars

CleanAmount ==
    \E a \in AmountInputs :
        /\ fn = "none"
        /\ fn' = "clean_amount"
        /\ arg' = a
        /\ amount' = clean_amount(a)
        /\ UNCHANGED <<res, rec, normalized>>
        /\ UNCHANGED storeVars
        /\ UNCHANGED sourceVars
        /\ UNCHANGED auditVars

CleanDate ==
    \E d \in DateInputs :
        /\ fn = "none"
        /\ fn' = "clean_date"
        /\ arg' = d
        /\ res' = clean_date(d)
        /\ UNCHANGED <<amount, rec, normalized>>
        /\ UNCHANGED storeVars
        /\ UNCHANGED sourceVars
        /\ UNCHANGED auditVars

NormalizeRecord ==
    \E r \in RecordInputs :
        /\ fn = "none"
        /\ fn' = "normalize_record"
        /\ rec' = r
        /\ normalized' = normalize_record(r)
        /\ UNCHANGED <<arg, res, amount>>
        /\ UNCHANGED storeVars
        /\ UNCHANGED sourceVars
        /\ UNCHANGED auditVars

NextClean == CleanSupplier \/ CleanAmount \/ CleanDate \/ NormalizeRecord

SpecClean == Init /\ [][NextClean]_vars

(***************************************************************************)
(* Ingestion: insert_records called with any batch of raw records          *)
(***************************************************************************)
MaxBatch == 2

MaxCalls == 2

Acme == <<"A", "c", "m", "e">>

MarchFirst == <<"0", "1", "/", "0", "3", "/", "2", "0", "2", "4">>

\* one upstream row as fetched, and the same row as another fetch spells it
RowA == BaseRecord

RowAAgain ==
    RawRecord(Str(<<"A", " ">>), Str(IsoSpelling(2024, 3, 1)), Str(<<" ">> \o Acme),
              Str(<<"x">>), None, PyFloat(1250), Str(<<"i", "1">>))

RowB ==
    RawRecord(Str(<<"B">>), Str(<<"2", "0", "2", "3", "-", "1", "2">>), Str(<<>>),
              None, Str(<<"I", "T">>), PyInt(150000), None)

RowC ==
    RawRecord(Str(<<"A">>), Str(MarchFirst), Str(<<"L", "t", "d">>), Str(<<"x">>),
              Str(<<>>), Str(<<"5">>), Str(<<"i", "3">>))

\* no parseable date
RowUndated == [RowC EXCEPT !.payment_date = Str(<<"N", "/", "A">>)]

\* a blank description cell, which pandas reads as NaN
RowBlankDescription == [RowC EXCEPT !.description = NaN]

\* a blank amount cell
RowBlankAmount == [RowA EXCEPT !.amount_gbp = NaN, !.invoice_ref = Str(<<"i", "2">>)]

RawRecords == {RowA, RowAAgain, RowB, RowC, RowUndated, RowBlankDescription,
               RowBlankAmount}

Batches == UNION {[1..n -> RawRecords] : n \in 0..MaxBatch}

\* normalize_record(r) of every raw record of the model, computed once
Normalized == [r \in RawRecords |-> normalize_record(r)]

(***************************************************************************)
(* fetch_and_ingest.py, db_schema.py, geocode.py                           *)
(***************************************************************************)
\* f"{x:.2f}" of a float
Format2f(x) ==
    CASE x.k = "nan" -> <<"n", "a", "n">>
      [] x.k = "inf" -> (IF x.neg THEN <<"-">> ELSE <<>>) \o <<"i", "n", "f">>
      [] OTHER -> (IF x.neg THEN <<"-">> ELSE <<>>)
                    \o NatToDigits(x.pence \div 100) \o <<".">> \o Pad(x.pence % 100, 2)

\* "|".join(parts)
RECURSIVE join(_)
join(parts) ==
    IF Len(parts) = 1 THEN parts[1]
    ELSE parts[1] \o <<"|">> \o join(Tail(parts))

\* hashlib.sha256(...).hexdigest(), taken to be free of collisions
sha256(s) == [sha256 |-> s]

\* the "|"-joined string that _row_hash digests
HashKey(council, date, supplier, description, category, amount_gbp, ref) ==
    join(<<council, date, supplier, description, category, Format2f(amount_gbp),
           ref>>)

_row_hash(norm) ==
    sha256(HashKey(norm.council, str(norm.payment_date), norm.supplier,
                   norm.description, norm.category, norm.amount_gbp,
                   norm.invoice_ref))

\* a nullable REAL column
Null == [null |-> TRUE, v |-> 0]

Real(v) == [null |-> FALSE, v |-> v]

\* what the external geocoder may answer: a location, no match, or an error
GeoOutcomes == {"found", "none", "error"}

FoundLat == 51

FoundLon == 0 - 1

InCache(c, addr) == \E e \in c : e.addr = addr

\* geocode_address(address) under cache c when the geocoder answers `outcome`
geocode_address(address, outcome, c) ==
    IF address = <<>> THEN [lat |-> Null, lon |-> Null, cache |-> c, called |-> FALSE]
    ELSE LET addr == strip(address)
         IN  IF InCache(c, addr)
             THEN LET e == CHOOSE e \in c : e.addr = addr
                  IN  [lat |-> Real(e.lat), lon |-> Real(e.lon), cache |-> c,
                       called |-> FALSE]
             ELSE IF outcome = "found"
             THEN [lat |-> Real(FoundLat), lon |-> Real(FoundLon),
                   cache |-> c \cup {[addr |-> addr, lat |-> FoundLat, lon |-> FoundLon]},
                   called |-> TRUE]
             ELSE [lat |-> Null, lon |-> Null, cache |-> c, called |-> TRUE]

\* str() of a nullable REAL
RealRepr(x) ==
    IF x.null THEN <<"N", "o", "n", "e">>
    ELSE FloatRepr(x.v < 0, (IF x.v < 0 THEN 0 - x.v ELSE x.v) * 100)

\* the tuple with its hash taken over the coordinates too, which the code does
\* not do
Row_hash_with_location(norm, lat, lon) ==
    [council |-> norm.council, payment_date |-> norm.payment_date.s,
     supplier |-> norm.supplier, description |-> norm.description,
     category |-> norm.category, amount_gbp |-> norm.amount_gbp,
     invoice_ref |-> norm.invoice_ref, lat |-> lat, lon |-> lon,
     hash |-> sha256(join(<<_row_hash(norm).sha256, RealRepr(lat), RealRepr(lon)>>))]

\* the tuple insert_records appends to to_insert
Row(norm, lat, lon) ==
    [council |-> norm.council, payment_date |-> norm.payment_date.s,
     supplier |-> norm.supplier, description |-> norm.description,
     category |-> norm.category, amount_gbp |-> norm.amount_gbp,
     invoice_ref |-> norm.invoice_ref, lat |-> lat, lon |-> lon,
     hash |-> _row_hash(norm)]

\* not norm.get("payment_date")
NoDate(norm) == norm.payment_date.t = "none" \/ norm.payment_date.s = <<>>

\* the iteration without the test of payment_date, which the code does make
loop_rest_keeps_undated(st, norm, do_geocode, outcome) ==
    IF norm.raised THEN [st EXCEPT !.raised = TRUE]
    ELSE IF do_geocode /\ norm.supplier # <<>>
    THEN [st EXCEPT
            !.to_insert = Append(@, Row(norm,
                                        geocode_address(norm.supplier, outcome, st.cache).lat,
                                        geocode_address(norm.supplier, outcome, st.cache).lon)),
            !.cache = geocode_address(norm.supplier, outcome, st.cache).cache,
            !.calls = IF geocode_address(norm.supplier, outcome, st.cache).called
                      THEN Append(@, strip(norm.supplier)) ELSE @]
    ELSE [st EXCEPT !.to_insert = Append(@, Row(norm, Null, Null))]

\* the rest of one iteration of the for loop of insert_records, once the record
\* is normalized to norm: st is the loop's state and `outcome` the geocoder's
\* answer should it be asked
loop_rest(st, norm, do_geocode, outcome) ==
    IF norm.raised THEN [st EXCEPT !.raised = TRUE]
    ELSE IF NoDate(norm) THEN [st EXCEPT !.skipped = @ + 1]
    ELSE IF do_geocode /\ norm.supplier # <<>>
    THEN [st EXCEPT
            !.to_insert = Append(@, Row(norm,
                                        geocode_address(norm.supplier, outcome, st.cache).lat,
                                        geocode_address(norm.supplier, outcome, st.cache).lon)),
            !.cache = geocode_address(norm.supplier, outcome, st.cache).cache,
            !.calls = IF geocode_address(norm.supplier, outcome, st.cache).called
                      THEN Append(@, strip(norm.supplier)) ELSE @]
    ELSE [st EXCEPT !.to_insert = Append(@, Row(norm, Null, Null))]

\* one iteration of the for loop on record r
loop_body(st, r, do_geocode, outcome) ==
    loop_rest(st, IF r \in RawRecords THEN Normalized[r] ELSE normalize_record(r),
              do_geocode, outcome)

\* the for loop from record i on; an exception of normalize_record ends it
RECURSIVE prepare(_, _, _, _, _)
prepare(records, do_geocode, geo, i, st) ==
    IF i > Len(records) \/ st.raised THEN st
    ELSE prepare(records, do_geocode, geo, i + 1,
                 loop_body(st, records[i], do_geocode, geo[i]))

\* the NOT NULL columns of payments; sqlite binds a NaN float as NULL
NotNullOk(row) == row.amount_gbp.k # "nan"

\* the UNIQUE index idx_payments_hash
HashFree(table, row) == \A j \in 1..Len(table) : table[j].hash # row.hash

\* the statement as INSERT OR REPLACE, which the code does not use: a row whose
\* hash is stored takes the place of the stored row
RECURSIVE executemany_or_replace(_, _, _)
executemany_or_replace(table, rows, rowcount) ==
    IF rows = <<>> THEN [table |-> table, rowcount |-> rowcount]
    ELSE IF ~NotNullOk(Head(rows))
    THEN executemany_or_replace(table, Tail(rows), rowcount)
    ELSE executemany_or_replace(
             Append(SelectSeq(table, LAMBDA row : row.hash # Head(rows).hash),
                    Head(rows)),
             Tail(rows), rowcount + 1)

\* cur.executemany("INSERT OR IGNORE ..."): a row that violates a constraint is
\* left out, every other row is appended and counted in rowcount
RECURSIVE executemany(_, _, _)
executemany(table, rows, rowcount) ==
    IF rows = <<>> THEN [table |-> table, rowcount |-> rowcount]
    ELSE IF NotNullOk(Head(rows)) /\ HashFree(table, Head(rows))
    THEN executemany(Append(table, Head(rows)), Tail(rows), rowcount + 1)
    ELSE executemany(table, Tail(rows), rowcount)

\* the store raises while executemany writes row number err of to_insert
\* (err = 0, or err beyond the rows: the store raises nothing)
StoreFails(p, err) == err \in 1..Len(p.to_insert)

\* the table as the open transaction of executemany sees it when the store
\* raises at row err: the rows before err are written, none is committed
InTransaction(p, table, err) ==
    executemany(table, SubSeq(p.to_insert, 1, err - 1), 0).table

\* the writes with every row committed as it is written, which the code does
\* not do
write_rows_autocommit(p, table, err) ==
    IF p.raised
    THEN [outcome |-> "raised", inserted |-> 0, skipped |-> 0,
          table |-> table, cache |-> p.cache, calls |-> p.calls]
    ELSE IF p.to_insert = <<>>
    THEN [outcome |-> "returned", inserted |-> 0, skipped |-> p.skipped,
          table |-> table, cache |-> p.cache, calls |-> p.calls]
    ELSE IF StoreFails(p, err)
    THEN [outcome |-> "store_error", inserted |-> 0, skipped |-> 0,
          table |-> InTransaction(p, table, err), cache |-> p.cache,
          calls |-> p.calls]
    ELSE [outcome |-> "returned",
          inserted |-> executemany(table, p.to_insert, 0).rowcount,
          skipped |-> p.skipped,
          table |-> executemany(table, p.to_insert, 0).table,
          cache |-> p.cache, calls |-> p.calls]

\* insert_records after its for loop left p: the early return, else the
\* executemany, whose rowcount is the number of rows it added, and the commit.
\* An exception of executemany leaves insert_records before conn.commit(), and
\* the connection, dropped with its transaction open, rolls it back.
write_rows(p, table, err) ==
    IF p.raised
    THEN [outcome |-> "raised", inserted |-> 0, skipped |-> 0,
          table |-> table, cache |-> p.cache, calls |-> p.calls]
    ELSE IF p.to_insert = <<>>
    THEN [outcome |-> "returned", inserted |-> 0, skipped |-> p.skipped,
          table |-> table, cache |-> p.cache, calls |-> p.calls]
    ELSE IF StoreFails(p, err)
    THEN [outcome |-> "store_error", inserted |-> 0, skipped |-> 0,
          table |-> table, cache |-> p.cache, calls |-> p.calls]
    ELSE [outcome |-> "returned",
          inserted |-> executemany(table, p.to_insert, 0).rowcount,
          skipped |-> p.skipped,
          table |-> executemany(table, p.to_insert, 0).table,
          cache |-> p.cache, calls |-> p.calls]

\* insert_records(records, do_geocode) on `table` and cache c, the geocoder
\* answering geo[i] for record i and the store failing at row err
insert_records(records, do_geocode, geo, table, c, err) ==
    write_rows(prepare(records, do_geocode, geo, 1,
                       [raised |-> FALSE, to_insert |-> <<>>, skipped |-> 0,
                        cache |-> c, calls |-> <<>>]),
               table, err)

\* the names of a sequence of geocoder requests
Names(calls) == {calls[i] : i \in 1..Len(calls)}

\* the names requested again: already asked before, or twice in calls
Repeated(before, calls) ==
    {calls[i] : i \in {j \in 1..Len(calls) :
                          calls[j] \in before
                          \/ \E k \in 1..(j - 1) : calls[k] = calls[j]}}

InsertRecords ==
    /\ ncalls < MaxCalls
    /\ ncalls' = ncalls + 1
    /\ \E records \in Batches, do_geocode \in BOOLEAN :
       \E geo \in IF do_geocode THEN [1..Len(records) -> GeoOutcomes]
                  ELSE {[i \in 1..Len(records) |-> "none"]} :
       \E err \in 0..Len(records) :
       \E r \in {insert_records(records, do_geocode, geo, payments, cache, err)} :
       \E again \in {last.outcome = "returned" /\ last.batch = records} :
           /\ payments' = r.table
           /\ cache' = r.cache
           /\ asked' = asked \cup Names(r.calls)
           /\ reasked' = reasked \cup Repeated(asked, r.calls)
           /\ last' = [batch |-> records, do_geocode |-> do_geocode, err |-> err,
                       outcome |-> r.outcome, inserted |-> r.inserted,
                       skipped |-> r.skipped, before |-> payments,
                       again |-> again,
                       first |-> IF again
                                 THEN [inserted |-> last.inserted,
                                       skipped |-> last.skipped,
                                       before |-> last.before]
                                 ELSE NoFirst]
           /\ UNCHANGED cleanVars
           /\ UNCHANGED sourceVars
           /\ UNCHANGED auditVars

Next == InsertRecords

Spec == Init /\ [][Next]_vars

(***************************************************************************)
(* Claims about the cleaning functions, checked under SpecClean            *)
(***************************************************************************)
IsCalendarDate(y, m, d) == m \in 1..12 /\ d >= 1 /\ d <= DaysInMonth(y, m)

HasWsRun(s) == \E i \in 1..(Len(s) - 1) : s[i] \in WS /\ s[i + 1] \in WS

Trimmed(s) == s = <<>> \/ (s[1] \notin WS /\ s[Len(s)] \notin WS)

\* C4: normalize_record never raises: for every raw record whose cells are each
\* a string, a number, a blank (NaN), None or missing it returns the mapping of
\* the seven canonical fields, with a number for amount_gbp.
C4_NormalizeNeverRaises ==
    fn = "normalize_record" =>
        ~normalized.raised /\ normalized.amount_gbp.k \in {"fin", "inf", "nan"}

\* C6: for every calendar date the four spellings YYYY-MM-DD, DD/MM/YYYY,
\* YYYY/MM/DD and DD-MM-YYYY all clean to the same string YYYY-MM-DD, the
\* slash- and dash-separated ones that do not start with a year being read
\* day first.
C6_FourSpellingsAgree ==
    (fn = "clean_date" /\ arg.t = "str") =>
        \A y \in Years, m \in Months, d \in Days :
            (IsCalendarDate(y, m, d) /\ arg.s \in FourSpellings(y, m, d))
                => (res.t = "str" /\ res.s = IsoSpelling(y, m, d))

\* "12/01/2024", which a month-first reading would take for 1 December, is
\* cleaned to 12 January
C6_Witness ==
    /\ fn = "clean_date"
    /\ arg.t = "str"
    /\ arg.s = DmySlashSpelling(2024, 1, 12)
    /\ res.t = "str"
    /\ res.s = IsoSpelling(2024, 1, 12)

\* a string of digits with at most one decimal point
NumericString(s) ==
    /\ s # <<>>
    /\ \A i \in 1..Len(s) : s[i] \in DigitSet \cup {"."}
    /\ Cardinality({i \in 1..Len(s) : s[i] = "."}) <= 1
    /\ \E i \in 1..Len(s) : s[i] \in DigitSet

BareYear(s) == Len(s) = 4 /\ isdigit(s)

FreeText == {<<"n", "o", "t", " ", "a", " ", "d", "a", "t", "e">>, <<"N", "/", "A">>}

\* C7: clean_date maps a bare 4-digit year to January 1 of that year, and None,
\* the empty string, free text and every purely numeric string that is not a
\* 4-digit year to absent.
C7_OnlyListedFormats ==
    fn = "clean_date" =>
        /\ arg.t = "none" => res.t = "none"
        /\ arg.t = "dt" => res.t = "str"
        /\ (arg.t = "str" /\ BareYear(strip(arg.s)))
              => (res.t = "str"
                  /\ res.s = strip(arg.s) \o <<"-", "0", "1", "-", "0", "1">>)
        /\ (arg.t = "str" /\ (strip(arg.s) = <<>> \/ arg.s \in FreeText))
              => res.t = "none"
        /\ (arg.t = "str" /\ NumericString(strip(arg.s)) /\ ~BareYear(strip(arg.s)))
              => res.t = "none"

\* what is left of the amount once the pound sign and the thousands separators
\* are removed
Remainder(a) == strip(remove(remove(str(a), ","), Pound))

\* an optionally signed decimal number
IsDecimal(s) ==
    /\ s # <<>>
    /\ NumericString(IF s[1] \in {"+", "-"} THEN Tail(s) ELSE s)

\* C8: clean_amount returns the parsed decimal value when the remainder is a
\* decimal number, and exactly 0.0 for every empty or unparseable input.
C8_AmountOrZero ==
    fn = "clean_amount" =>
        IF IsDecimal(Remainder(arg))
        THEN amount = float(Remainder(arg)).val
        ELSE amount = Fin(FALSE, 0)

\* C9: clean_supplier(None) is the empty string, and every cleaned supplier is
\* trimmed and has no run of two or more whitespace characters, also as the
\* supplier of a normalized record.
C9_SupplierCollapsed ==
    /\ fn = "clean_supplier" =>
          /\ arg.t = "none" => res.s = <<>>
          /\ Trimmed(res.s)
          /\ ~HasWsRun(res.s)
    /\ (fn = "normalize_record" /\ ~normalized.raised) =>
          (Trimmed(normalized.supplier) /\ ~HasWsRun(normalized.supplier))

(***************************************************************************)
(* Claims about ingestion, checked under Spec                              *)
(***************************************************************************)
Hashes(table) == {table[j].hash : j \in 1..Len(table)}

\* the payment_date of raw record r cleans to absent
CleansToAbsent(r) == clean_date(r.payment_date).t = "none"

Undated(batch) == {i \in 1..Len(batch) : CleansToAbsent(batch[i])}

\* a text cell that holds a number or a blank instead of a string
MalformedCell(v) == v.t \in {"num", "nan", "dt"}

Malformed(r) ==
    \/ MalformedCell(r.council) \/ MalformedCell(r.description)
    \/ MalformedCell(r.category) \/ MalformedCell(r.invoice_ref)

\* the hash of raw record r
HashOf(r) == _row_hash(Normalized[r])

RowsWithHash(table, h) == {j \in 1..Len(table) : table[j].hash = h}

\* C1: calling insert(B) again after a completed insert(B) leaves the stored
\* rows unchanged, and the store holds exactly one row for each distinct hash
\* of a dated record of B.
C1_ReingestIdempotent ==
    (last.again /\ last.outcome = "returned") =>
        /\ payments = last.before
        /\ \A i \in 1..Len(last.batch) :
              ~CleansToAbsent(last.batch[i])
                  => Cardinality(RowsWithHash(payments, HashOf(last.batch[i]))) = 1

\* C2: inserting the same dated raw record in two successive calls on a store
\* that did not contain it returns (inserted=1, skipped=0) and then
\* (inserted=0, skipped=1).
C2_DuplicateCountedSkipped ==
    (/\ last.again
     /\ last.outcome = "returned"
     /\ Len(last.batch) = 1
     /\ ~CleansToAbsent(last.batch[1])
     /\ HashOf(last.batch[1]) \notin Hashes(last.first.before))
        => /\ last.first.inserted = 1
           /\ last.first.skipped = 0
           /\ last.inserted = 0
           /\ last.skipped = 1

\* C3: a record whose payment_date cleans to absent is never written to the
\* store, and each one adds exactly one to the skipped count insert returns.
C3_UndatedSkippedNeverStored ==
    /\ \A j \in 1..Len(payments) : payments[j].payment_date # <<>>
    /\ last.outcome = "returned" =>
          /\ last.skipped = Cardinality(Undated(last.batch))
          /\ Len(payments) - Len(last.before)
                <= Len(last.batch) - Cardinality(Undated(last.batch))

\* a batch of an undated record and a dated one: one skipped, one stored
C3_Witness ==
    /\ last.outcome = "returned"
    /\ Len(last.batch) = 2
    /\ Cardinality(Undated(last.batch)) = 1
    /\ last.skipped = 1
    /\ last.inserted = 1
    /\ Len(payments) = Len(last.before) + 1

\* C5: when a batch holds one record with a malformed cell and otherwise valid
\* dated records, insert completes and every one of the valid records is in
\* the store afterwards.
C5_BadRowKeepsBatch ==
    (/\ last.outcome # "none"
     /\ Cardinality({i \in 1..Len(last.batch) : Malformed(last.batch[i])}) = 1
     /\ \E i \in 1..Len(last.batch) : ~Malformed(last.batch[i])
     /\ \A i \in 1..Len(last.batch) :
           Malformed(last.batch[i])
           \/ (~CleansToAbsent(last.batch[i])
               /\ last.batch[i].amount_gbp.t # "nan"))
        => /\ last.outcome = "returned"
           /\ \A i \in 1..Len(last.batch) :
                 ~Malformed(last.batch[i])
                     => HashOf(last.batch[i]) \in Hashes(payments)

\* the hash recomputed from the seven business columns of a stored row
StoredKeyHash(row) ==
    sha256(HashKey(row.council, row.payment_date, row.supplier, row.description,
                   row.category, row.amount_gbp, row.invoice_ref))

\* C10: the hash of every stored row is the digest of its own seven business
\* fields, whatever the do_geocode flag, the resolved lat/lon, the order of
\* the batch and the prior contents of the store were; so no two stored rows
\* carry the same business fields.
C10_HashOfBusinessFields ==
    /\ \A j \in 1..Len(payments) : payments[j].hash = StoredKeyHash(payments[j])
    /\ \A i, j \in 1..Len(payments) :
          StoredKeyHash(payments[i]) = StoredKeyHash(payments[j]) => i = j

\* the same upstream row, stored with coordinates by a geocoding call, is
\* ingested again in another spelling without geocoding, after another row:
\* it hashes to the stored row and is not stored twice
C10_Witness ==
    /\ Len(payments) = 2
    /\ \E j \in 1..Len(payments) :
          /\ ~payments[j].lat.null
          /\ payments[j].hash = HashOf(RowAAgain)
    /\ ~last.do_geocode
    /\ last.outcome = "returned"
    /\ Len(last.batch) = 2
    /\ last.batch[2] = RowAAgain
    /\ last.inserted = 1

\* C18: the external geocoder is asked at most once about each supplier name,
\* whatever it answered the first time (coordinates, no match or an error).
C18_GeocoderAskedOncePerName == reasked = {}

\* table `new` keeps every row of table `old`, unchanged and in place
Extends(new, old) ==
    Len(new) >= Len(old) /\ SubSeq(new, 1, Len(old)) = old

\* C19: no step changes or removes a stored payment row: the table after the
\* step is the table before it, followed by the rows the step added.
C19_WriteOnce == [][Extends(payments', payments)]_vars

\* a row stored without coordinates is ingested again by a call that geocodes
\* and has coordinates for its supplier: the stored row stays as it was
C19_Witness ==
    /\ last.outcome = "returned"
    /\ last.do_geocode
    /\ InCache(cache, Acme)
    /\ \E i \in 1..Len(last.batch) : HashOf(last.batch[i]) = HashOf(RowA)
    /\ \E j \in 1..Len(last.before) :
          /\ last.before[j].hash = HashOf(RowA)
          /\ last.before[j].lat.null
          /\ payments[j] = last.before[j]

Columns == {"council", "payment_date", "supplier", "description", "category",
            "amount_gbp", "invoice_ref", "lat", "lon", "hash"}

\* C20: an insert call that fails with a store error while writing its rows
\* leaves the payments table as it was before the call, and every stored row
\* has all ten columns.
C20_NoPartialCommit ==
    /\ last.outcome = "store_error" => payments = last.before
    /\ \A j \in 1..Len(payments) : DOMAIN payments[j] = Columns

\* the store fails at the second of two rows, after the first, a new row, was
\* written inside the transaction
C20_Witness ==
    /\ last.outcome = "store_error"
    /\ last.err = 2
    /\ Len(last.batch) = 2
    /\ HashOf(last.batch[1]) \notin Hashes(payments)
    /\ ~CleansToAbsent(last.batch[1])
    /\ ~Malformed(last.batch[1])
    /\ last.batch[1].amount_gbp.t # "nan"

(***************************************************************************)
(* council_auto_discovery.py and council_fetchers: the fetchers            *)
(***************************************************************************)
\* What requests.get(url) is answered.  kind: "network_error" or "timeout"
\* (requests raises), "http_error" (a non-2xx status with an error page),
\* "html" (status 200 with an HTML page), "csv" (status 200 with a table).
\* parses: how pandas reads the body: "comma" (read_csv reads it as df),
\* "latin1" (only with encoding ISO-8859-1), "semicolon" (only with sep=";"),
\* "never" (read_csv raises whatever the arguments).
Response(kind, parses, df) == [kind |-> kind, parses |-> parses, df |-> df]

\* requests.get(url) raises
get_raises(r) == r.kind \in {"network_error", "timeout"}

\* r.raise_for_status() raises
raise_for_status(r) == r.kind = "http_error"

\* pd.read_csv(BytesIO(r.content))
read_csv(r) ==
    IF r.parses = "comma" THEN [raised |-> FALSE, df |-> r.df]
    ELSE [raised |-> TRUE, df |-> NoTable]

\* the three attempts of fetch_new_council_csv to read the body
read_csv_fallback(r) ==
    IF r.parses \in {"comma", "latin1", "semicolon"}
    THEN [raised |-> FALSE, df |-> r.df]
    ELSE [raised |-> TRUE, df |-> NoTable]

\* pd.read_csv(url), which downloads the url itself
read_csv_url(r) ==
    IF get_raises(r) \/ r.kind = "http_error" THEN [raised |-> TRUE, df |-> NoTable]
    ELSE read_csv(r)

\* df.empty
empty(df) == df.columns = <<>> \/ df.rows = <<>>

colmap ==
    [payment_date |->
        << <<"p", "a", "y", "m", "e", "n", "t", "_", "d", "a", "t", "e">>,
           <<"d", "a", "t", "e">>,
           <<"P", "a", "y", "m", "e", "n", "t", " ", "D", "a", "t", "e">>,
           <<"D", "a", "t", "e">>,
           <<"P", "a", "y", "m", "e", "n", "t", "D", "a", "t", "e">> >>,
     supplier |->
        << <<"s", "u", "p", "p", "l", "i", "e", "r">>,
           <<"S", "u", "p", "p", "l", "i", "e", "r">>,
           <<"S", "u", "p", "p", "l", "i", "e", "r", " ", "N", "a", "m", "e">>,
           <<"s", "u", "p", "p", "l", "i", "e", "r", "_", "n", "a", "m", "e">>,
           <<"S", "u", "p", "p", "l", "i", "e", "r", "N", "a", "m", "e">> >>,
     description |->
        << <<"d", "e", "s", "c", "r", "i", "p", "t", "i", "o", "n">>,
           <<"D", "e", "s", "c", "r", "i", "p", "t", "i", "o", "n">>,
           <<"p", "u", "r", "p", "o", "s", "e">>,
           <<"P", "u", "r", "p", "o", "s", "e">>,
           <<"D", "e", "t", "a", "i", "l", "s">> >>,
     category |->
        << <<"c", "a", "t", "e", "g", "o", "r", "y">>,
           <<"D", "e", "p", "a", "r", "t", "m", "e", "n", "t">>,
           <<"S", "e", "r", "v", "i", "c", "e", " ", "A", "r", "e", "a">>,
           <<"C", "o", "s", "t", " ", "C", "e", "n", "t", "r", "e">>,
           <<"S", "e", "r", "v", "i", "c", "e", "A", "r", "e", "a">>,
           <<"D", "i", "r", "e", "c", "t", "o", "r", "a", "t", "e">> >>,
     amount_gbp |->
        << <<"a", "m", "o", "u", "n", "t">>,
           <<"A", "m", "o", "u", "n", "t">>,
           <<"A", "m", "o", "u", "n", "t", " ", "P", "a", "i", "d">>,
           <<"A", "m", "o", "u", "n", "t", "P", "a", "i", "d">>,
           <<"N", "e", "t", " ", "A", "m", "o", "u", "n", "t">>,
           <<"N", "e", "t", "A", "m", "o", "u", "n", "t">>,
           <<"G", "r", "o", "s", "s", " ", "A", "m", "o", "u", "n", "t">>,
           <<"V", "a", "l", "u", "e">> >>,
     invoice_ref |->
        << <<"i", "n", "v", "o", "i", "c", "e">>,
           <<"I", "n", "v", "o", "i", "c", "e">>,
           <<"I", "n", "v", "o", "i", "c", "e", " ", "R", "e", "f">>,
           <<"I", "n", "v", "o", "i", "c", "e", "R", "e", "f">>,
           <<"i", "n", "v", "o", "i", "c", "e", "_", "n", "u", "m", "b", "e", "r">>,
           <<"I", "n", "v", "o", "i", "c", "e", " ", "N", "u", "m", "b", "e", "r">> >>]

\* c.lower() in cols_lower, for cols_lower = {c.lower(): c for c in df.columns}
InColsLower(columns, key) ==
    \E j \in 1..Len(columns) : LowerStr(columns[j]) = key

\* cols_lower[key]: of the columns with that lower-case name the last one
cols_lower(columns, key) ==
    columns[CHOOSE j \in 1..Len(columns) :
                /\ LowerStr(columns[j]) = key
                /\ \A k \in (j + 1)..Len(columns) : LowerStr(columns[k]) # key]

NotPicked == [found |-> FALSE, col |-> <<>>]

\* pick(options) comparing the names as they are written, which the code does
\* not do
RECURSIVE pick_case_sensitive(_, _, _)
pick_case_sensitive(options, columns, i) ==
    IF i > Len(options) THEN NotPicked
    ELSE IF \E j \in 1..Len(columns) : columns[j] = options[i]
    THEN [found |-> TRUE, col |-> options[i]]
    ELSE pick_case_sensitive(options, columns, i + 1)

\* pick(options), from option i on
RECURSIVE pick(_, _, _)
pick(options, columns, i) ==
    IF i > Len(options) THEN NotPicked
    ELSE IF InColsLower(columns, LowerStr(options[i]))
    THEN [found |-> TRUE, col |-> cols_lower(columns, LowerStr(options[i]))]
    ELSE pick(options, columns, i + 1)

\* row.get(key, default) for a row of df
row_get(df, row, key, default) ==
    IF \E j \in 1..Len(df.columns) : df.columns[j] = key
    THEN row[CHOOSE j \in 1..Len(df.columns) : df.columns[j] = key]
    ELSE default

\* row.get(c) if c else default, for c = pick(colmap[field])
picked_cell(df, row, field, default) ==
    IF pick(colmap[field], df.columns, 1).found
    THEN row_get(df, row, pick(colmap[field], df.columns, 1).col, None)
    ELSE default

\* the dict fetch_new_council_csv appends for one row
generic_record(df, row, council_name) ==
    RawRecord(Str(council_name),
              picked_cell(df, row, "payment_date", None),
              picked_cell(df, row, "supplier", Str(<<>>)),
              picked_cell(df, row, "description", Str(<<>>)),
              picked_cell(df, row, "category", Str(<<>>)),
              picked_cell(df, row, "amount_gbp", PyInt(0)),
              picked_cell(df, row, "invoice_ref", Str(<<>>)))

Raised == [raised |-> TRUE, payments |-> <<>>]

Returned(records) == [raised |-> FALSE, payments |-> records]

\* fetch_new_council_csv(url, council_name) when the url answers r
fetch_new_council_csv(url, council_name, r) ==
    IF get_raises(r) \/ raise_for_status(r) \/ read_csv_fallback(r).raised
    THEN Raised
    ELSE Returned([i \in 1..Len(r.df.rows) |->
                      generic_record(r.df, r.df.rows[i], council_name)])

\* council_fetchers/bristol.py: the dict fetch_payments appends for one row
bristol_record(df, row) ==
    RawRecord(Str(<<"B", "r", "i", "s", "t", "o", "l">>),
              row_get(df, row, <<"P", "a", "y", "m", "e", "n", "t", "D", "a", "t", "e">>, None),
              row_get(df, row, <<"S", "u", "p", "p", "l", "i", "e", "r", "N", "a", "m", "e">>, row_get(df, row, <<"S", "u", "p", "p", "l", "i", "e", "r">>, None)),
              row_get(df, row, <<"D", "e", "s", "c", "r", "i", "p", "t", "i", "o", "n">>, None),
              row_get(df, row, <<"D", "e", "p", "a", "r", "t", "m", "e", "n", "t">>, Str(<<>>)),
              row_get(df, row, <<"A", "m", "o", "u", "n", "t">>, None),
              row_get(df, row, <<"T", "r", "a", "n", "s", "a", "c", "t", "i", "o", "n", "N", "u", "m", "b", "e", "r">>, Str(<<>>)))

\* get_monthly_csv_urls(): the index page answers `index` ("network_error",
\* "timeout", "http_error" or "page"), and a page links to the files whose
\* downloads will be answered by `monthly`; an error page holds no link
get_monthly_csv_urls(index, monthly) ==
    IF index \in {"network_error", "timeout"} THEN [raised |-> TRUE, links |-> <<>>]
    ELSE IF index = "page" THEN [raised |-> FALSE, links |-> monthly]
    ELSE [raised |-> FALSE, links |-> <<>>]

\* the for loop of bristol.fetch_payments from url i on
RECURSIVE bristol_loop(_, _, _)
bristol_loop(csvs, i, acc) ==
    IF i > Len(csvs) THEN acc
    ELSE IF get_raises(csvs[i]) \/ read_csv(csvs[i]).raised
    THEN bristol_loop(csvs, i + 1, acc)
    ELSE bristol_loop(csvs, i + 1,
                      acc \o [k \in 1..Len(csvs[i].df.rows) |->
                                 bristol_record(csvs[i].df, csvs[i].df.rows[k])])

\* bristol.fetch_payments()
bristol_fetch_payments(index, monthly) ==
    IF get_monthly_csv_urls(index, monthly).raised THEN Raised
    ELSE Returned(bristol_loop(get_monthly_csv_urls(index, monthly).links, 1, <<>>))

\* council_fetchers/blaby.py: the dict fetch_payments builds for one row
blaby_record(df, row) ==
    RawRecord(Str(<<"B", "l", "a", "b", "y">>),
              row_get(df, row, <<"D", "a", "t", "e">>, None),
              row_get(df, row, <<"S", "u", "p", "p", "l", "i", "e", "r">>, None),
              row_get(df, row, <<"P", "u", "r", "p", "o", "s", "e">>, None),
              row_get(df, row, <<"D", "e", "p", "a", "r", "t", "m", "e", "n", "t">>, Str(<<>>)),
              row_get(df, row, <<"A", "m", "o", "u", "n", "t">>, None),
              row_get(df, row, <<"I", "n", "v", "o", "i", "c", "e", "R", "e", "f">>, Str(<<>>)))

blaby_rows(df) == [k \in 1..Len(df.rows) |-> blaby_record(df, df.rows[k])]

\* the columns of pd.concat(dfs): those of every frame, in first-seen order
RECURSIVE concat_columns(_, _)
concat_columns(dfs, acc) ==
    IF dfs = <<>> THEN acc
    ELSE concat_columns(Tail(dfs),
                        acc \o SelectSeq(Head(dfs).columns,
                                         LAMBDA c : \A j \in 1..Len(acc) : acc[j] # c))

\* pd.concat(dfs, ignore_index=True): a cell of a column the frame lacks is NaN
RECURSIVE concat_rows(_, _)
concat_rows(dfs, columns) ==
    IF dfs = <<>> THEN <<>>
    ELSE [k \in 1..Len(Head(dfs).rows) |->
             [j \in 1..Len(columns) |->
                 row_get(Head(dfs), Head(dfs).rows[k], columns[j], NaN)]]
         \o concat_rows(Tail(dfs), columns)

concat(dfs) ==
    [columns |-> concat_columns(dfs, <<>>),
     rows |-> concat_rows(dfs, concat_columns(dfs, <<>>))]

\* the frames _scrape_and_combine_csvs collects from link i on
RECURSIVE scraped_frames(_, _)
scraped_frames(links, i) ==
    IF i > Len(links) THEN <<>>
    ELSE IF read_csv_url(links[i]).raised THEN scraped_frames(links, i + 1)
    ELSE <<read_csv_url(links[i]).df>> \o scraped_frames(links, i + 1)

\* _scrape_and_combine_csvs() once the payments page was downloaded
_scrape_and_combine_csvs(page, monthly) ==
    IF page = "page" /\ scraped_frames(monthly, 1) # <<>>
    THEN concat(scraped_frames(monthly, 1))
    ELSE NoTable

\* blaby.fetch_payments(): csv_url answers `direct`, the payments page `page`
blaby_fetch_payments(direct, page, monthly) ==
    IF ~get_raises(direct) /\ ~read_csv(direct).raised /\ ~empty(read_csv(direct).df)
    THEN Returned(blaby_rows(read_csv(direct).df))
    ELSE IF page \in {"network_error", "timeout"} THEN Raised
    ELSE IF ~empty(_scrape_and_combine_csvs(page, monthly))
    THEN Returned(blaby_rows(_scrape_and_combine_csvs(page, monthly)))
    ELSE Returned(<<>>)

(***************************************************************************)
(* The fetchers, each called once with any of the answers below           *)
(***************************************************************************)
MaxColumns == 3

MaxRows == 2

MaxLinks == 2

\* the headers of the tables the generic fetcher is given
HeaderUniverse ==
    {<<"S", "u", "p", "p", "l", "i", "e", "r", " ", "N", "a", "m", "e">>, <<"S", "U", "P", "P", "L", "I", "E", "R", " ", "N", "A", "M", "E">>, <<"D", "a", "t", "e">>,
     <<"p", "a", "y", "m", "e", "n", "t", "_", "d", "a", "t", "e">>, <<"A", "m", "o", "u", "n", "t">>, <<"N", "o", "t", "e", "s">>}

\* the cell of row i and column j: no two cells of a table are equal
Cell(i, j) == Str(<<"r", DigitSeq[i + 1], "c", DigitSeq[j + 1]>>)

Table(columns, n) ==
    [columns |-> columns,
     rows |-> [i \in 1..n |-> [j \in 1..Len(columns) |-> Cell(i, j)]]]

\* pandas keeps the column names of a frame distinct
HeaderLists ==
    UNION {{c \in [1..n -> HeaderUniverse] :
               \A j, k \in 1..n : c[j] = c[k] => j = k} : n \in 0..MaxColumns}

GenericTables == {Table(c, n) : c \in HeaderLists, n \in 0..MaxRows}

\* what read_csv makes of an HTML page it manages to read
HtmlTable == Table(<< <<"<", "h", "t", "m", "l", ">">> >>, 1)

BristolTable == Table(<< <<"P", "a", "y", "m", "e", "n", "t", "D", "a", "t", "e">>, <<"S", "u", "p", "p", "l", "i", "e", "r", "N", "a", "m", "e">>, <<"A", "m", "o", "u", "n", "t">> >>, 1)

BlabyTable == Table(<< <<"D", "a", "t", "e">>, <<"S", "u", "p", "p", "l", "i", "e", "r">>, <<"A", "m", "o", "u", "n", "t">> >>, 1)

HeadersOnly == Table(<< <<"D", "a", "t", "e">>, <<"S", "u", "p", "p", "l", "i", "e", "r">>, <<"A", "m", "o", "u", "n", "t">> >>, 0)

\* the answers in which the download failed
FailedResponses ==
    {Response("network_error", "never", NoTable),
     Response("timeout", "never", NoTable),
     Response("http_error", "never", NoTable),
     Response("http_error", "comma", HtmlTable),
     Response("html", "never", NoTable),
     Response("html", "comma", HtmlTable),
     Response("html", "semicolon", HtmlTable)}

GenericResponses ==
    FailedResponses
    \cup {Response("csv", "comma", t) : t \in GenericTables}
    \cup {Response("csv", how, Table(<< <<"D", "a", "t", "e">>, <<"V", "a", "l", "u", "e">> >>, 1)) :
             how \in {"latin1", "semicolon"}}

CustomResponses ==
    {Response("network_error", "never", NoTable),
     Response("http_error", "comma", HtmlTable),
     Response("html", "never", NoTable)}
    \cup {Response("csv", "comma", t) : t \in {BristolTable, BlabyTable, HeadersOnly}}

\* the answers of the files an index page links to
MonthlyAnswers == UNION {[1..n -> CustomResponses] : n \in 0..MaxLinks}

PageAnswers == {"network_error", "timeout", "http_error", "page"}

CouncilNames == {<<"B", "r", "i", "s", "t", "o", "l">>, <<"B", "l", "a", "b", "y">>, <<"L", "e", "e", "d", "s">>}

FetchNewCouncilCsv ==
    \E r \in GenericResponses, council_name \in {<<"B", "r", "i", "s", "t", "o", "l">>, <<"L", "e", "e", "d", "s">>} :
    \E f \in {fetch_new_council_csv(<<>>, council_name, r)} :
        /\ fetched.by = "none"
        /\ fetched' = [by |-> "generic", council |-> council_name, direct |-> r,
                       index |-> "none", monthly |-> <<>>,
                       raised |-> f.raised, payments |-> f.payments]
        /\ UNCHANGED <<discovered, run, update_log>>
        /\ UNCHANGED cleanVars
        /\ UNCHANGED auditVars
        /\ UNCHANGED storeVars

BristolFetchPayments ==
    \E index \in PageAnswers, monthly \in MonthlyAnswers :
    \E f \in {bristol_fetch_payments(index, monthly)} :
        /\ fetched.by = "none"
        /\ fetched' = [by |-> "bristol", council |-> <<"B", "r", "i", "s", "t", "o", "l">>,
                       direct |-> NoResponse, index |-> index,
                       monthly |-> monthly,
                       raised |-> f.raised, payments |-> f.payments]
        /\ UNCHANGED <<discovered, run, update_log>>
        /\ UNCHANGED cleanVars
        /\ UNCHANGED auditVars
        /\ UNCHANGED storeVars

BlabyFetchPayments ==
    \E direct \in CustomResponses, page \in PageAnswers, monthly \in MonthlyAnswers :
    \E f \in {blaby_fetch_payments(direct, page, monthly)} :
        /\ fetched.by = "none"
        /\ fetched' = [by |-> "blaby", council |-> <<"B", "l", "a", "b", "y">>,
                       direct |-> direct, index |-> page, monthly |-> monthly,
                       raised |-> f.raised, payments |-> f.payments]
        /\ UNCHANGED <<discovered, run, update_log>>
        /\ UNCHANGED cleanVars
        /\ UNCHANGED auditVars
        /\ UNCHANGED storeVars

NextFetch == FetchNewCouncilCsv \/ BristolFetchPayments \/ BlabyFetchPayments

SpecFetch == Init /\ [][NextFetch]_vars

(***************************************************************************)
(* Claims about the fetchers, checked under SpecFetch                      *)
(***************************************************************************)
Fields == {"payment_date", "supplier", "description", "category", "amount_gbp",
           "invoice_ref"}

\* the places in a field's alias list of the aliases some header equals,
\* letter case aside
Matching(field, columns) ==
    {k \in 1..Len(colmap[field]) :
        \E j \in 1..Len(columns) :
            LowerStr(columns[j]) = LowerStr(colmap[field][k])}

\* what a field without a matching header is given
Default(field) ==
    CASE field = "payment_date" -> None
      [] field = "amount_gbp" -> PyInt(0)
      [] OTHER -> Str(<<>>)

\* every record takes `field` from one header that equals the earliest
\* matching alias, or has the default when no alias matches
FieldMapped(field, df, records) ==
    IF Matching(field, df.columns) = {}
    THEN \A i \in 1..Len(records) : records[i][field] = Default(field)
    ELSE \E j \in 1..Len(df.columns) :
            /\ \E k \in Matching(field, df.columns) :
                  /\ \A m \in Matching(field, df.columns) : k <= m
                  /\ LowerStr(df.columns[j]) = LowerStr(colmap[field][k])
            /\ \A i \in 1..Len(records) : records[i][field] = df.rows[i][j]

\* C12: for each of the six fields the generic fetcher takes the header equal,
\* letter case aside, to the earliest alias of the field that any header
\* matches, and gives a field without a matching header its default, never the
\* value of another column.
C12_GenericColumnMapping ==
    (fetched.by = "generic" /\ ~fetched.raised) =>
        /\ Len(fetched.payments) = Len(fetched.direct.df.rows)
        /\ \A i \in 1..Len(fetched.payments) :
              fetched.payments[i].council = Str(fetched.council)
        /\ \A field \in Fields :
              FieldMapped(field, fetched.direct.df, fetched.payments)

\* a table with the headers "Notes" and "SUPPLIER NAME": the supplier is taken
\* from the second column and the description, which no header names, is empty
C12_Witness ==
    /\ fetched.by = "generic"
    /\ ~fetched.raised
    /\ fetched.direct.df.columns = << <<"N", "o", "t", "e", "s">>, <<"S", "U", "P", "P", "L", "I", "E", "R", " ", "N", "A", "M", "E">> >>
    /\ Len(fetched.payments) = 1
    /\ fetched.payments[1].supplier = Cell(1, 2)
    /\ fetched.payments[1].description = Str(<<>>)

\* the download was answered by an error instead of a table
HardFailure(r) == r.kind \in {"network_error", "timeout", "http_error", "html"}

\* every download the latest fetch depended on failed
SourceFailed ==
    CASE fetched.by = "generic" -> HardFailure(fetched.direct)
      [] fetched.by = "bristol" ->
            \/ fetched.index # "page"
            \/ /\ fetched.monthly # <<>>
               /\ \A i \in 1..Len(fetched.monthly) : HardFailure(fetched.monthly[i])
      [] fetched.by = "blaby" ->
            /\ HardFailure(fetched.direct)
            /\ \/ fetched.index # "page"
               \/ \A i \in 1..Len(fetched.monthly) : HardFailure(fetched.monthly[i])
      [] OTHER -> FALSE

\* C13: whenever the download of a source fails (network error, non-2xx status
\* or an HTML page returned with status 200), the fetcher raises instead of
\* returning records, be it the generic fetcher or a custom one.
C13_FetchFailureReported == SourceFailed => fetched.raised

(***************************************************************************)
(* council_auto_discovery.py: discover_new_councils                        *)
(***************************************************************************)
\* x or y, for strings
or_else(x, y) == IF x # <<>> THEN x ELSE y

\* a resource of a package; an absent key is the empty string
Resource(format, url, download_url) == [format |-> format, url |-> url, download_url |-> download_url]

\* a package of the search result; org_title and org_name are the title and
\* the name of its "organization", empty when it has none
Package(org_title, org_name, title, resources) == [org_title |-> org_title, org_name |-> org_name, title |-> title, resources |-> resources]

\* council = (org.get("title") or org.get("name") or "").strip()
\*           or (pkg.get("title") or "").strip()
council_of(pkg) == or_else(strip(or_else(pkg.org_title, pkg.org_name)), strip(pkg.title))

\* url = res.get("url") or res.get("download_url")
url_of(resource) == or_else(resource.url, resource.download_url)

\* the pairs the inner for loop appends for the resources from i on
RECURSIVE resource_pairs(_, _, _)
resource_pairs(council, resources, i) ==
    IF i > Len(resources) THEN <<>>
    ELSE (IF LowerStr(resources[i].format) = <<"c", "s", "v">> /\ url_of(resources[i]) # <<>>
          THEN << <<council, url_of(resources[i])>> >>
          ELSE <<>>)
         \o resource_pairs(council, resources, i + 1)

\* the pairs appended for the packages of one page
RECURSIVE package_pairs(_)
package_pairs(packages) ==
    IF packages = <<>> THEN <<>>
    ELSE resource_pairs(council_of(Head(packages)), Head(packages).resources, 1)
         \o package_pairs(Tail(packages))

\* a de-duplication that keeps the last of equal pairs, which the code does
\* not do
RECURSIVE dedupe_keep_last(_)
dedupe_keep_last(pairs) ==
    IF pairs = <<>> THEN <<>>
    ELSE IF \E j \in 2..Len(pairs) : pairs[j] = Head(pairs)
    THEN dedupe_keep_last(Tail(pairs))
    ELSE <<Head(pairs)>> \o dedupe_keep_last(Tail(pairs))

\* the de-duplication loop at the end of discover_new_councils
RECURSIVE dedupe(_)
dedupe(pairs) ==
    IF pairs = <<>> THEN <<>>
    ELSE <<Head(pairs)>> \o dedupe(SelectSeq(Tail(pairs), LAMBDA x : x # Head(pairs)))

\* An answer of the search API: ok is FALSE when _page raises (the request
\* fails, the status is not 2xx or the body is no JSON), else count and
\* results are those of the "result" object.
Answer(ok, count, results) == [ok |-> ok, count |-> count, results |-> results]

\* the state of discover_new_councils before its loop; total < 0 is None
discover_start == [raised |-> FALSE, requests |-> <<>>, pairs |-> <<>>, total |-> 0 - 1, start |-> 0]

\* a loop that pages on until a page is empty, whatever total the first page
\* declared, which the code does not do
RECURSIVE discover_loop_ignores_total(_, _, _, _, _)
discover_loop_ignores_total(answers, max_pages, rows_per_page, i, st) ==
    IF i > max_pages THEN st
    ELSE IF ~answers[i].ok
    THEN [st EXCEPT !.raised = TRUE, !.requests = Append(@, st.start)]
    ELSE IF answers[i].results = <<>>
    THEN [st EXCEPT !.requests = Append(@, st.start)]
    ELSE discover_loop_ignores_total(answers, max_pages, rows_per_page, i + 1,
                       [st EXCEPT
                           !.requests = Append(@, st.start),
                           !.pairs = @ \o package_pairs(answers[i].results),
                           !.total = IF @ < 0 THEN answers[i].count ELSE @,
                           !.start = @ + rows_per_page])

\* the for loop of discover_new_councils from request i on, the API answering
\* the i-th request by answers[i]
RECURSIVE discover_loop(_, _, _, _, _)
discover_loop(answers, max_pages, rows_per_page, i, st) ==
    IF i > max_pages THEN st
    ELSE IF ~answers[i].ok
    THEN [st EXCEPT !.raised = TRUE, !.requests = Append(@, st.start)]
    ELSE IF answers[i].results = <<>>
    THEN [st EXCEPT !.requests = Append(@, st.start)]
    ELSE IF st.start + rows_per_page >= (IF st.total < 0 THEN answers[i].count ELSE st.total)
    THEN [st EXCEPT !.requests = Append(@, st.start),
                    !.pairs = @ \o package_pairs(answers[i].results)]
    ELSE discover_loop(answers, max_pages, rows_per_page, i + 1,
                       [st EXCEPT
                           !.requests = Append(@, st.start),
                           !.pairs = @ \o package_pairs(answers[i].results),
                           !.total = IF @ < 0 THEN answers[i].count ELSE @,
                           !.start = @ + rows_per_page])

\* what the caller of discover_new_councils gets from the loop's final state:
\* the exception of _page, or the de-duplicated pairs
discover_return(st) == [raised |-> st.raised, requests |-> st.requests, out |-> IF st.raised THEN <<>> ELSE dedupe(st.pairs)]

\* discover_new_councils(max_pages, rows_per_page)
discover_new_councils(answers, max_pages, rows_per_page) == discover_return(discover_loop(answers, max_pages, rows_per_page, 1, discover_start))
(***************************************************************************)
(* The answers of the data.gov.uk search API, and the call                 *)
(***************************************************************************)
MaxPages == 2
RowsPerPage == 2

\* a council's dataset with a CSV and a PDF resource
PkgLeeds == Package(<<"L", "e", "e", "d", "s">>, <<>>, <<"S", "p", "e", "n", "d">>, << Resource(<<"C", "S", "V">>, <<"u", "1">>, <<>>), Resource(<<"P", "D", "F">>, <<"u", "2">>, <<>>) >>)
\* the same council and file once more, named by the organization's name
PkgLeedsAgain == Package(<<>>, <<" ", "L", "e", "e", "d", "s">>, <<"S", "p", "e", "n", "d">>, << Resource(<<"c", "s", "v">>, <<"u", "1">>, <<>>) >>)
\* a dataset without organization, whose title names a council
PkgBristol == Package(<<>>, <<>>, <<" ", "B", "r", "i", "s", "t", "o", "l", " ">>, << Resource(<<"C", "S", "V">>, <<>>, <<"u", "3">>) >>)
\* a dataset without organization and without title
PkgUntitled == Package(<<>>, <<>>, <<>>, << Resource(<<"C", "s", "v">>, <<"u", "2">>, <<>>) >>)

Packages == {PkgLeeds, PkgLeedsAgain, PkgBristol, PkgUntitled}

\* the result lists of one page: up to rows_per_page packages
Pages == UNION {[1..n -> Packages] : n \in 0..RowsPerPage}

\* the values of result.count: none, a single page, or as many as may be
\* requested
Counts == {0, RowsPerPage, RowsPerPage * MaxPages}

Answers == {Answer(FALSE, 0, <<>>)} \cup {Answer(TRUE, c, p) : c \in Counts, p \in Pages}

DiscoverNewCouncils ==
    /\ ~discovered.called
    /\ \E answers \in [1..MaxPages -> Answers] :
         discovered' = [called |-> TRUE,
                        answers |-> answers,
                        raised |-> discover_new_councils(answers, MaxPages, RowsPerPage).raised,
                        requests |-> discover_new_councils(answers, MaxPages, RowsPerPage).requests,
                        out |-> discover_new_councils(answers, MaxPages, RowsPerPage).out]
    /\ UNCHANGED <<fetched, run, update_log>>
    /\ UNCHANGED cleanVars
    /\ UNCHANGED auditVars
    /\ UNCHANGED storeVars

NextDiscover == DiscoverNewCouncils

SpecDiscover == Init /\ [][NextDiscover]_vars

\* the pairs of the pages the call processed, in the order the API gave them
RECURSIVE SeenUpTo(_)
SeenUpTo(n) ==
    IF n = 0 THEN <<>>
    ELSE SeenUpTo(n - 1) \o package_pairs(discovered.answers[n].results)

Seen == SeenUpTo(Len(discovered.requests))

Elems(s) == {s[i] : i \in DOMAIN s}

First(s, x) == CHOOSE i \in DOMAIN s : s[i] = x /\ \A j \in 1..(i - 1) : s[j] # x

\* C14: when discovery returns, its result holds every (council, url) pair
\* of a CSV resource on a processed page exactly once, and the pairs stand in
\* the order in which each was first seen.
C14_DiscoveryDedupFirstSeen ==
    (discovered.called /\ ~discovered.raised) =>
        /\ Elems(discovered.out) = Elems(Seen)
        /\ \A i, j \in DOMAIN discovered.out :
             /\ i # j => discovered.out[i] # discovered.out[j]
             /\ i < j => First(Seen, discovered.out[i]) < First(Seen, discovered.out[j])

\* a pair seen on the first page again on the second, after another pair
C14_Witness ==
    /\ discovered.called /\ ~discovered.raised
    /\ Len(discovered.requests) = 2
    /\ Len(discovered.out) >= 2
    /\ \E i, j, k \in DOMAIN Seen :
         i < j /\ j < k /\ Seen[i] = Seen[k] /\ Seen[i] # Seen[j]

\* C15: a page whose request fails is skipped: the pairs of the pages that
\* were fetched are still returned.
C15_FailedPageSkipped ==
    discovered.called =>
        \A n \in DOMAIN discovered.requests :
            discovered.answers[n].ok =>
                Elems(package_pairs(discovered.answers[n].results)) \subseteq Elems(discovered.out)

(***************************************************************************)
(* streamlit_app.py: load_all_council_data                                 *)
(***************************************************************************)
\* council_fetchers.FETCHERS, in the order of the dict: of the nine councils
\* registered, the two whose fetchers are modelled above
FETCHERS == << <<"B", "r", "i", "s", "t", "o", "l">>, <<"B", "l", "a", "b", "y">> >>

\* what streamlit_app binds FETCHERS to: the registry, or {} when the import
\* of council_fetchers raises ImportError
imported_fetchers(import_ok) == IF import_ok THEN FETCHERS ELSE <<>>

\* need_data_refresh(): no update logged yet, or the latest is older than a day
need_data_refresh(log) == log.councils = {} \/ ~log.recent

get_processed_councils(log) == log.councils

\* log_council_update(council_name, record_count): INSERT OR REPLACE of the
\* council's row, stamped now
log_council_update(log, council_name) == [councils |-> log.councils \cup {council_name}, recent |-> TRUE]

\* the if of both loops of load_all_council_data
wanted(council_name, processed_councils, log) == council_name \notin processed_councils \/ need_data_refresh(log)

\* the entry of one source of the run: kind is "custom" or "discovered",
\* outcome is "skipped" (the if is false), "raised" (the except branch),
\* "empty" (no records, nothing logged) or "loaded"
Attempt(kind, council, url, outcome, timed_out, inserted) == [kind |-> kind, council |-> council, url |-> url, outcome |-> outcome, timed_out |-> timed_out, inserted |-> inserted]

\* the body of the try of one source once insert_records(records) answered r
after_insert(r, log, council_name) ==
    IF r.outcome = "returned"
    THEN [outcome |-> "loaded", inserted |-> r.inserted, table |-> r.table, log |-> log_council_update(log, council_name)]
    ELSE [outcome |-> "raised", inserted |-> 0, table |-> r.table, log |-> log]

\* the try of one source: f is what the fetcher gives, err the row at which
\* the store fails
try_source(f, council_name, table, log, err) ==
    IF f.raised
    THEN [outcome |-> "raised", inserted |-> 0, table |-> table, log |-> log]
    ELSE IF f.payments = <<>>
    THEN [outcome |-> "empty", inserted |-> 0, table |-> table, log |-> log]
    ELSE after_insert(insert_records(f.payments, FALSE, [i \in 1..Len(f.payments) |-> "none"], table, {}, err), log, council_name)

\* a loop in which an exception of one source ends the run, which the code
\* does not do
step_source_abort(r, a) ==
    [r EXCEPT !.attempts = Append(@, a),
              !.next = @ + 1,
              !.pc = IF a.outcome = "raised" THEN "done" ELSE @]

\* one pass of a for loop of load_all_council_data with entry a: the except
\* branch appends to loading_status and the loop goes on
step_source(r, a) == [r EXCEPT !.attempts = Append(@, a), !.next = @ + 1]

\* the fetcher_func of a registered council on the answers inp
fetcher_func(council_name, inp) ==
    IF council_name = <<"B", "r", "i", "s", "t", "o", "l">>
    THEN bristol_fetch_payments(inp.index, inp.monthly)
    ELSE blaby_fetch_payments(inp.direct, inp.index, inp.monthly)
(***************************************************************************)
(* The runs: the answers of the sources, and the steps                     *)
(***************************************************************************)
MaxRuns == 2

\* one payment of 1 March 2024, as each source publishes it
BristolSpend == [columns |-> << <<"P", "a", "y", "m", "e", "n", "t", "D", "a", "t", "e">>, <<"S", "u", "p", "p", "l", "i", "e", "r", "N", "a", "m", "e">>, <<"A", "m", "o", "u", "n", "t">> >>, rows |-> << << Str(<<"0", "1", "/", "0", "3", "/", "2", "0", "2", "4">>), Str(<<"A", "c", "m", "e">>), Str(<<"5">>) >> >>]

BlabySpend == [columns |-> << <<"D", "a", "t", "e">>, <<"S", "u", "p", "p", "l", "i", "e", "r">>, <<"A", "m", "o", "u", "n", "t">> >>, rows |-> << << Str(<<"0", "1", "/", "0", "3", "/", "2", "0", "2", "4">>), Str(<<"A", "c", "m", "e">>), Str(<<"5">>) >> >>]

DiscoveredSpend == [columns |-> << <<"D", "a", "t", "e">>, <<"S", "u", "p", "p", "l", "i", "e", "r", " ", "N", "a", "m", "e">>, <<"A", "m", "o", "u", "n", "t">> >>, rows |-> << << Str(<<"0", "1", "/", "0", "3", "/", "2", "0", "2", "4">>), Str(<<"L", "t", "d">>), Str(<<"7">>) >> >>]

SpendOf(council_name) == IF council_name = <<"B", "r", "i", "s", "t", "o", "l">> THEN BristolSpend ELSE BlabySpend

\* the answers a registered council's site gives in a run: its file; a page
\* without a readable file; no answer in time
SiteAnswers(council_name) ==
    {[direct |-> Response("csv", "comma", SpendOf(council_name)), index |-> "page", monthly |-> << Response("csv", "comma", SpendOf(council_name)) >>],
     [direct |-> Response("html", "never", NoTable), index |-> "page", monthly |-> <<>>],
     [direct |-> Response("timeout", "never", NoTable), index |-> "timeout", monthly |-> <<>>]}

\* the answers a discovered url gives in a run
UrlAnswers == {Response("csv", "comma", DiscoveredSpend), Response("timeout", "never", NoTable), Response("http_error", "never", NoTable)}

\* the answers of the search API in a run
RunAnswers ==
    {[i \in 1..MaxPages |-> Answer(FALSE, 0, <<>>)],
     [i \in 1..MaxPages |-> Answer(TRUE, RowsPerPage, <<>>)],
     [i \in 1..MaxPages |-> Answer(TRUE, RowsPerPage, <<PkgLeeds>>)],
     [i \in 1..MaxPages |-> Answer(TRUE, RowsPerPage, <<PkgBristol>>)],
     [i \in 1..MaxPages |-> Answer(TRUE, RowsPerPage, <<PkgLeeds, PkgBristol>>)],
     [i \in 1..MaxPages |-> Answer(TRUE, RowsPerPage, <<PkgUntitled>>)]}

\* load_all_council_data is called: processed_councils is read once
RunStart ==
    /\ run.pc \in {"idle", "done"}
    /\ run.runs < MaxRuns
    /\ \E import_ok \in BOOLEAN :
         run' = [pc |-> "custom", runs |-> run.runs + 1,
                 fetchers |-> imported_fetchers(import_ok),
                 processed |-> get_processed_councils(update_log),
                 next |-> 1, new_councils |-> <<>>, discovery |-> "none",
                 attempts |-> <<>>, before |-> payments]
    /\ UNCHANGED <<payments, update_log>>
    /\ UNCHANGED <<cache, last, ncalls, asked, reasked, fetched, discovered>>
    /\ UNCHANGED cleanVars
    /\ UNCHANGED auditVars

\* one pass of the loop over FETCHERS.items()
RunCustom ==
    /\ run.pc = "custom"
    /\ run.next <= Len(run.fetchers)
    /\ IF wanted(run.fetchers[run.next], run.processed, update_log)
       THEN \E inp \in SiteAnswers(run.fetchers[run.next]), err \in 0..1 :
            \E t \in {try_source(fetcher_func(run.fetchers[run.next], inp), run.fetchers[run.next], payments, update_log, err)} :
                /\ run' = step_source(run, Attempt("custom", run.fetchers[run.next], <<>>, t.outcome, inp.index = "timeout", t.inserted))
                /\ payments' = t.table
                /\ update_log' = t.log
       ELSE /\ run' = step_source(run, Attempt("custom", run.fetchers[run.next], <<>>, "skipped", FALSE, 0))
            /\ UNCHANGED <<payments, update_log>>
    /\ UNCHANGED <<cache, last, ncalls, asked, reasked, fetched, discovered>>
    /\ UNCHANGED cleanVars
    /\ UNCHANGED auditVars

\* new_councils = discover_new_councils(), after the loop over FETCHERS
RunDiscover ==
    /\ run.pc = "custom"
    /\ run.next > Len(run.fetchers)
    /\ \E answers \in RunAnswers :
       \E d \in {discover_new_councils(answers, MaxPages, RowsPerPage)} :
           run' = [run EXCEPT !.pc = IF d.raised THEN "done" ELSE "discovered",
                              !.discovery = IF d.raised THEN "failed" ELSE "ok",
                              !.new_councils = d.out,
                              !.next = 1]
    /\ UNCHANGED <<payments, update_log>>
    /\ UNCHANGED <<cache, last, ncalls, asked, reasked, fetched, discovered>>
    /\ UNCHANGED cleanVars
    /\ UNCHANGED auditVars

\* one pass of the loop over new_councils
RunDiscovered ==
    /\ run.pc = "discovered"
    /\ run.next <= Len(run.new_councils)
    /\ IF wanted(run.new_councils[run.next][1], run.processed, update_log)
       THEN \E r \in UrlAnswers, err \in 0..1 :
            \E t \in {try_source(fetch_new_council_csv(run.new_councils[run.next][2], run.new_councils[run.next][1], r), run.new_councils[run.next][1], payments, update_log, err)} :
                /\ run' = step_source(run, Attempt("discovered", run.new_councils[run.next][1], run.new_councils[run.next][2], t.outcome, r.kind = "timeout", t.inserted))
                /\ payments' = t.table
                /\ update_log' = t.log
       ELSE /\ run' = step_source(run, Attempt("discovered", run.new_councils[run.next][1], run.new_councils[run.next][2], "skipped", FALSE, 0))
            /\ UNCHANGED <<payments, update_log>>
    /\ UNCHANGED <<cache, last, ncalls, asked, reasked, fetched, discovered>>
    /\ UNCHANGED cleanVars
    /\ UNCHANGED auditVars

\* return loading_status
RunReturn ==
    /\ run.pc = "discovered"
    /\ run.next > Len(run.new_councils)
    /\ run' = [run EXCEPT !.pc = "done"]
    /\ UNCHANGED <<payments, update_log>>
    /\ UNCHANGED <<cache, last, ncalls, asked, reasked, fetched, discovered>>
    /\ UNCHANGED cleanVars
    /\ UNCHANGED auditVars

\* more than a day passes between two runs
DayPasses ==
    /\ run.pc = "done"
    /\ run.runs < MaxRuns
    /\ update_log.recent
    /\ update_log' = [update_log EXCEPT !.recent = FALSE]
    /\ UNCHANGED <<payments, run>>
    /\ UNCHANGED <<cache, last, ncalls, asked, reasked, fetched, discovered>>
    /\ UNCHANGED cleanVars
    /\ UNCHANGED auditVars

NextRun == RunStart \/ RunCustom \/ RunDiscover \/ RunDiscovered \/ RunReturn \/ DayPasses

SpecRun == Init /\ [][NextRun]_vars

(***************************************************************************)
(* Claims about a run of load_all_council_data, checked under SpecRun      *)
(***************************************************************************)
Registered(council_name) == \E k \in DOMAIN run.fetchers : run.fetchers[k] = council_name

AttemptsOf(i) ==
    {j \in DOMAIN run.attempts :
        /\ run.attempts[j].kind = run.attempts[i].kind
        /\ run.attempts[j].council = run.attempts[i].council
        /\ run.attempts[j].url = run.attempts[i].url
        /\ run.attempts[j].outcome # "skipped"}

\* C16: when a run is over, every source whose fetch timed out was attempted
\* exactly once more in that run.
C16_TimeoutRetriedOnce ==
    run.pc = "done" =>
        \A i \in DOMAIN run.attempts :
            run.attempts[i].timed_out => Cardinality(AttemptsOf(i)) = 2

RECURSIVE Inserted(_)
Inserted(n) == IF n = 0 THEN 0 ELSE Inserted(n - 1) + run.attempts[n].inserted

\* C17: when a run is over, whatever the fetch or the insert of any source
\* raised, every registered council was taken up in turn, discovery was
\* called, every pair it returned was taken up in turn, and every source the
\* store had not logged before the run was attempted; when discovery failed,
\* the rows ingested from the registered councils are all in the store.
C17_FailuresIsolated ==
    run.pc = "done" =>
        /\ run.discovery \in {"ok", "failed"}
        /\ Len(run.attempts) = Len(run.fetchers) + Len(run.new_councils)
        /\ \A k \in DOMAIN run.fetchers :
             /\ run.attempts[k].kind = "custom"
             /\ run.attempts[k].council = run.fetchers[k]
        /\ \A k \in DOMAIN run.new_councils :
             /\ run.attempts[Len(run.fetchers) + k].kind = "discovered"
             /\ run.attempts[Len(run.fetchers) + k].council = run.new_councils[k][1]
             /\ run.attempts[Len(run.fetchers) + k].url = run.new_councils[k][2]
        /\ \A i \in DOMAIN run.attempts :
             run.attempts[i].council \notin run.processed =>
                 run.attempts[i].outcome # "skipped"
        /\ Extends(payments, run.before)
        /\ Len(payments) = Len(run.before) + Inserted(Len(run.attempts))

\* the first registered council raised, the second was loaded, and discovery
\* failed
C17_Witness ==
    /\ run.pc = "done"
    /\ run.discovery = "failed"
    /\ Len(run.attempts) = 2
    /\ run.attempts[1].outcome = "raised"
    /\ run.attempts[2].outcome = "loaded"
    /\ Len(payments) > Len(run.before)

C26_EveryRecordAccounted ==
    (/\ last.outcome = "returned"
     /\ \A i \in DOMAIN last.batch : Normalized[last.batch[i]].amount_gbp.k = "fin") =>
        /\ last.inserted + last.skipped = Len(last.batch)
        /\ last.inserted = Len(payments) - Len(last.before)

(***************************************************************************)
(* Claims about the stored council names, checked under SpecRun            *)
(***************************************************************************)
\* C23: every stored payment has a non-empty, trimmed council name, whatever
\* was discovered, fetched and inserted before.
C23_CouncilNeverEmpty ==
    \A i \in DOMAIN payments :
        payments[i].council # <<>> /\ Trimmed(payments[i].council)

(***************************************************************************)
(* fetch_and_ingest.py: the key of _row_hash, on payments whose text holds *)
(* the separator                                                           *)
(***************************************************************************)
\* raw records of one council and day whose supplier, description, category,
\* amount and invoice_ref vary, some holding "|"
KeyRecords ==
    {RawRecord(Str(<<"A">>), Str(MarchFirst), Str(supplier), Str(description), Str(category), Str(amount_gbp), Str(ref)) :
        supplier \in {<<"A", "c", "m", "e">>, <<"A", "c", "m", "e", "|", "x">>},
        description \in {<<>>, <<"y">>, <<"x", "|", "y">>},
        category \in {<<>>, <<"x">>},
        amount_gbp \in {<<"5">>, <<"7">>},
        ref \in {<<>>, <<"i", "1">>}}

\* the string _row_hash joins and digests
row_key(norm) == _row_hash(norm).sha256

\* _row_hash applied to the normalized forms of two raw records
RowHash ==
    /\ ~keyed.called
    /\ \E a \in KeyRecords, b \in KeyRecords :
         keyed' = [called |-> TRUE,
                   a |-> normalize_record(a),
                   b |-> normalize_record(b),
                   key_a |-> row_key(normalize_record(a)),
                   key_b |-> row_key(normalize_record(b))]
    /\ UNCHANGED <<detected, writers>>
    /\ UNCHANGED cleanVars
    /\ UNCHANGED storeVars
    /\ UNCHANGED sourceVars

NextKey == RowHash

SpecKey == Init /\ [][NextKey]_vars

\* C27: two normalized payments that differ in council, payment_date,
\* supplier, description, category, amount to 2 decimals or invoice_ref have
\* different key strings, also when a text field holds "|".
C27_KeyInjective ==
    (keyed.called /\ keyed.a # keyed.b) => keyed.key_a # keyed.key_b

(***************************************************************************)
(* pattern_detection.py: detect_anomalies, and streamlit_app.py:           *)
(* detect_fraud_indicators, the queries on large payments, frequent        *)
(* payments and supplier dominance                                         *)
(***************************************************************************)
LargeThreshold == 100000

FrequentThreshold == 5

DominanceThreshold == 25

\* a stored finite amount in pence
pence_of(x) == IF x.neg THEN 0 - x.pence ELSE x.pence

\* amount_gbp >= 100000, which the code does not test
amount_at_least(x, gbp) == IF x.k = "inf" THEN ~x.neg ELSE x.k = "fin" /\ pence_of(x) >= gbp * 100

\* amount_gbp > gbp, of a REAL column
amount_over(x, gbp) == IF x.k = "inf" THEN ~x.neg ELSE x.k = "fin" /\ pence_of(x) > gbp * 100

\* WHERE council = ?: the ids of the rows of a council
council_ids(table, council) == {i \in DOMAIN table : table[i].council = council}

\* WHERE council = ? AND amount_gbp > 100000
where_large(table, council) == {i \in council_ids(table, council) : amount_over(table[i].amount_gbp, LargeThreshold)}

\* the orders in which ORDER BY amount_gbp DESC may return the rows of ids:
\* rows of equal amount in any order
order_by_amount_desc(table, ids) ==
    {s \in [1..Cardinality(ids) -> ids] :
        /\ \A i, j \in DOMAIN s : s[i] = s[j] => i = j
        /\ \A i, j \in DOMAIN s : i < j => pence_of(table[s[i]].amount_gbp) >= pence_of(table[s[j]].amount_gbp)}

\* SELECT id, council, supplier, amount_gbp, payment_date of row id
large_row(table, id) == [id |-> id, council |-> table[id].council, supplier |-> table[id].supplier, amount_gbp |-> table[id].amount_gbp, payment_date |-> table[id].payment_date]

\* the first query of detect_anomalies, its rows in the order s of their ids
large_query(table, s) == [k \in DOMAIN s |-> large_row(table, s[k])]

\* query 1 of detect_fraud_indicators: SELECT supplier, amount_gbp,
\* payment_date, description, invoice_ref, with the same WHERE and ORDER BY
large_payments_query(table, s) == [k \in DOMAIN s |-> [supplier |-> table[s[k]].supplier, amount_gbp |-> table[s[k]].amount_gbp, payment_date |-> table[s[k]].payment_date, description |-> table[s[k]].description, invoice_ref |-> table[s[k]].invoice_ref]]

\* strftime('%Y-%m', payment_date) of an ISO date
year_month(payment_date) == SubSeq(payment_date, 1, 7)

\* the groups of GROUP BY council, supplier, ym among the rows of a council
month_groups(table, council) == {<<table[i].supplier, year_month(table[i].payment_date)>> : i \in council_ids(table, council)}

group_ids(table, council, g) == {i \in council_ids(table, council) : table[i].supplier = g[1] /\ year_month(table[i].payment_date) = g[2]}

\* the groups the second query of detect_anomalies returns: HAVING cnt > 5
frequent_groups(table, council) == {g \in month_groups(table, council) : Cardinality(group_ids(table, council, g)) > FrequentThreshold}

\* SUM(amount_gbp) over the rows of ids, in pence
RECURSIVE sum_pence(_, _)
sum_pence(table, ids) ==
    IF ids = {} THEN 0
    ELSE sum_pence(table, ids \ {CHOOSE i \in ids : TRUE})
         + pence_of(table[CHOOSE i \in ids : TRUE].amount_gbp)

supplier_ids(table, council, supplier) == {i \in council_ids(table, council) : table[i].supplier = supplier}

RECURSIVE Gcd(_, _)
Gcd(a, b) == IF b = 0 THEN a ELSE Gcd(b, a % b)

\* SUM(amount_gbp) * 100.0 / total > percent, total being the sum over the
\* council; the quotient is NULL when total is 0, and NULL > percent is not
\* true; the comparison is made on the fraction percent / 100 in lowest terms
share_over(sum, total, percent) ==
    IF total > 0
    THEN sum * (100 \div Gcd(100, percent)) > (percent \div Gcd(100, percent)) * total
    ELSE IF total < 0
    THEN sum * (100 \div Gcd(100, percent)) < (percent \div Gcd(100, percent)) * total
    ELSE FALSE

\* HAVING percentage > 25 of query 4 of detect_fraud_indicators
having_percentage(table, council, supplier) == share_over(sum_pence(table, supplier_ids(table, council, supplier)), sum_pence(table, council_ids(table, council)), DominanceThreshold)

\* the suppliers query 4 returns for a council
dominant(table, council) == {table[i].supplier : i \in {j \in council_ids(table, council) : having_percentage(table, council, table[j].supplier)}}

\* one row of query 4: supplier, payment_count, total_amount; the percentage
\* is total_amount * 100 / council_total
dominant_row(table, council, supplier) == [supplier |-> supplier, payment_count |-> Cardinality(supplier_ids(table, council, supplier)), total_amount |-> sum_pence(table, supplier_ids(table, council, supplier)), council_total |-> sum_pence(table, council_ids(table, council))]
(***************************************************************************)
(* The queries on stores of a few payments                                 *)
(***************************************************************************)
MaxStored == 3

\* a payment of one day of March 2024
AuditRecord(council, supplier, amount_gbp, ref) == RawRecord(Str(council), Str(MarchFirst), Str(supplier), Str(<<"x">>), Str(<<>>), Str(amount_gbp), Str(ref))

\* three payments of 150,000 to one supplier in one month; a payment of the
\* threshold and one a penny above it; a large payment of another council;
\* payments of 600, 400 and 250 to two suppliers
AuditRecords ==
    {AuditRecord(<<"A">>, <<"A", "c", "m", "e">>, <<"1", "5", "0", "0", "0", "0">>, <<"i", "1">>),
     AuditRecord(<<"A">>, <<"A", "c", "m", "e">>, <<"1", "5", "0", "0", "0", "0">>, <<"i", "2">>),
     AuditRecord(<<"A">>, <<"A", "c", "m", "e">>, <<"1", "5", "0", "0", "0", "0">>, <<"i", "3">>),
     AuditRecord(<<"A">>, <<"A", "c", "m", "e">>, <<"1", "0", "0", "0", "0", "0">>, <<"i", "4">>),
     AuditRecord(<<"A">>, <<"L", "t", "d">>, <<"1", "0", "0", "0", "0", "0", ".", "0", "1">>, <<"i", "5">>),
     AuditRecord(<<"B">>, <<"L", "t", "d">>, <<"2", "0", "0", "0", "0", "0">>, <<"i", "6">>),
     AuditRecord(<<"B">>, <<"A", "c", "m", "e">>, <<"6", "0", "0">>, <<"i", "7">>),
     AuditRecord(<<"B">>, <<"L", "t", "d">>, <<"4", "0", "0">>, <<"i", "8">>),
     AuditRecord(<<"B">>, <<"L", "t", "d">>, <<"2", "5", "0">>, <<"i", "9">>)}

AuditCouncils == {<<"A">>, <<"B">>, <<"C">>}

\* insert_records([r]) before any query
LoadPayment ==
    /\ ~detected.called
    /\ Len(payments) < MaxStored
    /\ \E r \in AuditRecords :
         payments' = insert_records(<<r>>, FALSE, <<"none">>, payments, {}, 0).table
    /\ UNCHANGED <<cache, last, ncalls, asked, reasked>>
    /\ UNCHANGED <<detected, keyed, writers>>
    /\ UNCHANGED cleanVars
    /\ UNCHANGED sourceVars

\* detect_anomalies(council) and detect_fraud_indicators(council) on the store
DetectAnomalies ==
    /\ ~detected.called
    /\ \E council \in AuditCouncils :
       \E s \in order_by_amount_desc(payments, where_large(payments, council)) :
         detected' = [called |-> TRUE,
                      council |-> council,
                      large |-> large_query(payments, s),
                      frequent |-> frequent_groups(payments, council),
                      large_payments |-> large_payments_query(payments, s),
                      dominant_suppliers |-> {dominant_row(payments, council, supplier) : supplier \in dominant(payments, council)}]
    /\ UNCHANGED <<keyed, writers>>
    /\ UNCHANGED cleanVars
    /\ UNCHANGED storeVars
    /\ UNCHANGED sourceVars

NextDetect == LoadPayment \/ DetectAnomalies

SpecDetect == Init /\ [][NextDetect]_vars

(***************************************************************************)
(* Claims about the anomaly queries, checked under SpecDetect              *)
(***************************************************************************)
\* the stored payments of the council asked about that exceed 100,000 GBP
LargeIds ==
    {i \in DOMAIN payments :
        /\ payments[i].council = detected.council
        /\ ~payments[i].amount_gbp.neg
        /\ payments[i].amount_gbp.pence > LargeThreshold * 100}

\* C21: the large-payments result holds exactly the stored payments of the
\* council whose amount is strictly above 100,000 GBP, each once, by
\* descending amount, and is the empty list when there are none; whether a
\* payment is in it does not depend on how many payments its supplier has in
\* the month, and a supplier with five payments or fewer in a month is not
\* flagged as frequent.
C21_LargePayments ==
    detected.called =>
        /\ Len(detected.large) = Cardinality(LargeIds)
        /\ {detected.large[k].id : k \in DOMAIN detected.large} = LargeIds
        /\ \A k \in DOMAIN detected.large :
             detected.large[k] = large_row(payments, detected.large[k].id)
        /\ \A j, k \in DOMAIN detected.large :
             j < k => pence_of(detected.large[j].amount_gbp) >= pence_of(detected.large[k].amount_gbp)
        /\ Len(detected.large_payments) = Cardinality(LargeIds)
        /\ \A k \in DOMAIN detected.large_payments :
             detected.large_payments[k].amount_gbp = detected.large[k].amount_gbp
        /\ \A g \in detected.frequent :
             Cardinality(group_ids(payments, detected.council, g)) > FrequentThreshold

\* three payments of 150,000 GBP to Acme in one month of council A: all
\* three are large and the supplier is not flagged as frequent
C21_Witness ==
    /\ detected.called
    /\ detected.council = <<"A">>
    /\ Len(payments) = 3
    /\ \A i \in DOMAIN payments :
         /\ payments[i].supplier = Acme
         /\ payments[i].amount_gbp = Fin(FALSE, 15000000)
    /\ Len(detected.large) = 3
    /\ detected.frequent = {}

\* C22: the dominance query flags a supplier exactly when its share of the
\* council's total spend is strictly above 50%, and surfaces at most one
\* entry.
C22_DominanceOverHalf ==
    detected.called =>
        /\ Cardinality(detected.dominant_suppliers) <= 1
        /\ \A d \in detected.dominant_suppliers : 2 * d.total_amount > d.council_total
        /\ \A i \in council_ids(payments, detected.council) :
             2 * sum_pence(payments, supplier_ids(payments, detected.council, payments[i].supplier))
                 > sum_pence(payments, council_ids(payments, detected.council))
             => \E d \in detected.dominant_suppliers : d.supplier = payments[i].supplier

(***************************************************************************)
(* insert_records called by several writers at once, each on a connection  *)
(* of its own to the one database file                                     *)
(***************************************************************************)
\* the for loop of insert_records(records) with do_geocode False
prepared(records) == prepare(records, FALSE, [i \in 1..Len(records) |-> "none"], 1, [raised |-> FALSE, to_insert |-> <<>>, skipped |-> 0, cache |-> {}, calls |-> <<>>])

\* where a call stands after its for loop: normalize_record raised, or the
\* call returned (0, skipped), or it goes on to _connect()
after_loop(records, p) ==
    [pc |-> IF p.raised THEN "raised" ELSE IF p.to_insert = <<>> THEN "returned" ELSE "connected",
     batch |-> records, to_insert |-> p.to_insert, skipped |-> p.skipped,
     inserted |-> 0, pending |-> <<>>]

\* sqlite lets one connection write at a time: the writer whose executemany
\* ran holds the write lock until its commit
Locked(w) == \E v \in DOMAIN writers : v # w /\ writers[v].pc = "written"

\* a writer starts insert_records(records) and runs it up to _connect()
WriterCall(w) ==
    /\ writers[w].pc = "idle"
    /\ \E records \in Batches :
         writers' = [writers EXCEPT ![w] = after_loop(records, prepared(records))]
    /\ UNCHANGED <<detected, keyed>>
    /\ UNCHANGED cleanVars
    /\ UNCHANGED storeVars
    /\ UNCHANGED sourceVars

\* cur.executemany(...): the rows are written in the writer's transaction,
\* against the rows committed so far
WriterExecutemany(w) ==
    /\ writers[w].pc = "connected"
    /\ ~Locked(w)
    /\ writers' = [writers EXCEPT ![w].pc = "written",
                                  ![w].pending = executemany(payments, writers[w].to_insert, 0).table,
                                  ![w].inserted = executemany(payments, writers[w].to_insert, 0).rowcount]
    /\ UNCHANGED <<detected, keyed>>
    /\ UNCHANGED cleanVars
    /\ UNCHANGED storeVars
    /\ UNCHANGED sourceVars

\* cur.executemany(...) while another writer holds the lock for longer than
\* the connection waits: sqlite3.OperationalError, database is locked
WriterLocked(w) ==
    /\ writers[w].pc = "connected"
    /\ Locked(w)
    /\ writers' = [writers EXCEPT ![w].pc = "raised"]
    /\ UNCHANGED <<detected, keyed>>
    /\ UNCHANGED cleanVars
    /\ UNCHANGED storeVars
    /\ UNCHANGED sourceVars

\* conn.commit(), conn.close(), return (inserted, skipped)
WriterCommit(w) ==
    /\ writers[w].pc = "written"
    /\ payments' = writers[w].pending
    /\ writers' = [writers EXCEPT ![w].pc = "returned"]
    /\ UNCHANGED <<cache, last, ncalls, asked, reasked>>
    /\ UNCHANGED <<detected, keyed>>
    /\ UNCHANGED cleanVars
    /\ UNCHANGED sourceVars

NextWriters ==
    \E w \in 1..MaxWriters :
        WriterCall(w) \/ WriterExecutemany(w) \/ WriterLocked(w) \/ WriterCommit(w)

SpecWriters == Init /\ [][NextWriters]_vars

(***************************************************************************)
(* Claims about concurrent writers, checked under SpecWriters              *)
(***************************************************************************)
RECURSIVE InsertedBy(_)
InsertedBy(n) == IF n = 0 THEN 0 ELSE InsertedBy(n - 1) + writers[n].inserted

\* two calls wrote side by side, both returned, and a record is in the
\* batches of both
WroteTogether ==
    /\ \A w \in DOMAIN writers : writers[w].pc = "returned" /\ writers[w].to_insert # <<>>
    /\ \E v, w \in DOMAIN writers :
         /\ v # w
         /\ \E i \in DOMAIN writers[v].batch, j \in DOMAIN writers[w].batch :
              writers[v].batch[i] = writers[w].batch[j]

\* C24: when insert calls that ran concurrently on overlapping batches have
\* returned, the store holds exactly one row for each distinct hash of a
\* dated record of their batches, and the inserted counts they returned add up
\* to the number of rows added to the store.
C24_ConcurrentWriters ==
    WroteTogether =>
        /\ \A w \in DOMAIN writers : \A i \in DOMAIN writers[w].batch :
             ~CleansToAbsent(writers[w].batch[i]) =>
                 Cardinality(RowsWithHash(payments, HashOf(writers[w].batch[i]))) = 1
        /\ InsertedBy(MaxWriters) = Len(payments)

====
